---- MODULE Spec2Model ----
(***************************************************************************)
(* Model of the stability analysis engine of @rankfor/dice-roller:         *)
(*  - the orchestrators analyzeStability and runExperiment, as the         *)
(*    asynchronous state machines their await points make them;            *)
(*  - classifyKeyMessages with the key-point similarity predicates.        *)
(* Strings that the code inspects character by character are sequences of  *)
(* one-character strings.                                                  *)
(***************************************************************************)
EXTENDS Integers, Sequences, FiniteSets, TLC

VARIABLES
    entry,      \* which exported function the caller invokes
    options,    \* the options object of that call
    run,        \* the activation of analyzeStability (locals and position)
    xp,         \* the activation of runExperiment (locals and position)
    trace,      \* what the program did to its collaborators, in order
    responses,  \* classifyKeyMessages: its argument, the Response Records
    cls,        \* classifyKeyMessages: its locals, position and result
    brandsDb,   \* brand detector: the bundled data/brands.json
    detector,   \* brand detector: the BrandDetector object, once constructed
    call        \* the latest call of a library function: arguments, result

orchVars == <<entry, options, run, xp, trace>>

classVars == <<responses, cls>>

libVars == <<brandsDb, detector, call>>

vars == <<entry, options, run, xp, trace, responses, cls, brandsDb, detector, call>>

(***************************************************************************)
(* Bounds and program constants                                            *)
(***************************************************************************)

\* the runs whose Response Records are classified have at most
\* MaxRunIterations iterations and MaxRunKeyPoints key points in all
MaxRunIterations == 3

MaxRunKeyPoints == 3

\* largest valid iteration count tried through runExperiment
MaxExperimentIterations == 2

\* analyzeStability: `iterations < 1 || iterations > 10`
MIN_ITERATIONS == 1
MAX_ITERATIONS == 10

Models == {"gemini", "openai", "grok"}

\* messages of the errors the code constructs
ERR_API_KEY      == "API key is required"
ERR_ITERATIONS   == "Iterations must be between 1 and 10"
ERR_ALL_FAILED   == "All iterations failed - unable to complete analysis"
ERR_NO_KEYS      == "At least one API key must be provided"
ERR_ALL_MODELS   == "All model analyses failed"
\* the rejection of the injected query capability (transport error)
ERR_QUERY        == "query rejected"
\* the error of the placeholder analyzeStability of packages/core
ERR_NOT_IMPLEMENTED == "Not yet implemented"

(***************************************************************************)
(* analyzeStability                                                        *)
(*                                                                         *)
(* The activation runs from one await to the next in one step.  The query  *)
(* capability resolves or rejects; onProgress and onError are notified and *)
(* return (they appear in the trace with their arguments).                 *)
(***************************************************************************)

NoOutcome == [kind |-> "pending", message |-> "", iterations |-> 0, responses |-> <<>>]

Thrown(msg) == [kind |-> "thrown", message |-> msg, iterations |-> 0, responses |-> <<>>]

\* the returned StabilityResult: `responses` and metadata.iterations
Returned(rs) ==
    [kind |-> "returned", message |-> "",
     iterations |-> Len(rs), responses |-> rs]

IdleRun ==
    [pc |-> "none", model |-> "gemini", iterations |-> 0,
     onProgress |-> "undefined", onError |-> "undefined",
     i |-> 0, responses |-> <<>>, outcome |-> NoOutcome]

Event(e, f, a) == [ev |-> e, model |-> f.model, iteration |-> f.i, args |-> a]

\* the promise of the activation settles
Settle(f, t, out) ==
    [run   |-> [f EXCEPT !.pc = "done", !.outcome = out],
     trace |-> Append(t, Event(out.kind, f, <<out.message>>))]

\* mutant: the range check of the iteration count is missing
ValidateKeyOnly(o) == IF ~o.apiKey THEN ERR_API_KEY ELSE ""

\* the two configuration checks at the head of analyzeStability;
\* "" when the options pass
Validate(o) ==
    IF ~o.apiKey THEN ERR_API_KEY
    ELSE IF o.iterations < MIN_ITERATIONS \/ o.iterations > MAX_ITERATIONS
         THEN ERR_ITERATIONS
         ELSE ""

\* mutant: the query of the next iteration is issued along with the current
IssueQueryAhead(f, t) ==
    [run   |-> [f EXCEPT !.pc = "await"],
     trace |-> Append(Append(t, Event("query", f,
                  <<IF f.model = "gemini" THEN "queryGemini" ELSE "queryOpenAI">>)),
                  Event("query", [f EXCEPT !.i = f.i + 1],
                  <<IF f.model = "gemini" THEN "queryGemini" ELSE "queryOpenAI">>))]

\* the query of the current iteration is issued and awaited
IssueQuery(f, t) ==
    [run   |-> [f EXCEPT !.pc = "await"],
     trace |-> Append(t, Event("query", f,
                  <<IF f.model = "gemini" THEN "queryGemini" ELSE "queryOpenAI">>))]

\* mutant: the total-failure check after the loop is missing
FinishAlwaysReturns(f, t) == Settle(f, t, Returned(f.responses))

\* after the loop: total failure, or the analysis and the result
Finish(f, t) ==
    IF Len(f.responses) = 0
    THEN Settle(f, t, Thrown(ERR_ALL_FAILED))
    ELSE Settle(f, t, Returned(f.responses))

\* the loop test `i <= iterations` with what follows it
LoopTest(f, t) ==
    IF f.i <= f.iterations THEN IssueQuery(f, t) ELSE Finish(f, t)

\* i++ and the loop test
NextIteration(f, t) == LoopTest([f EXCEPT !.i = f.i + 1], t)

\* a call of analyzeStability, up to its first await or its throw
Invoke(o, t) ==
    LET f == [IdleRun EXCEPT !.model = o.model, !.iterations = o.iterations,
                             !.onProgress = o.onProgress, !.onError = o.onError]
    IN IF Validate(o) # ""
       THEN Settle(f, t, Thrown(Validate(o)))
       ELSE LoopTest([f EXCEPT !.i = 1], t)

\* mutant: the progress total is the number of responses so far
ProgressArgsCount(f) ==
    IF f.onProgress = "wrapper"
    THEN <<f.model, f.i, Len(f.responses)>>
    ELSE <<f.i, Len(f.responses)>>

\* the arguments the caller's progress callback receives
ProgressArgs(f) ==
    IF f.onProgress = "wrapper"
    THEN <<f.model, f.i, f.iterations>>
    ELSE <<f.i, f.iterations>>

\* `if (onProgress) onProgress(i, iterations)`
Progress(f, t) ==
    IF f.onProgress = "undefined" THEN t
    ELSE Append(t, Event("onProgress", f, ProgressArgs(f)))

\* mutant: the catch block always logs and never calls onError
CatchLogsOnly(f, t, msg) == Append(t, Event("console.error", f, <<f.i, msg>>))

\* the catch block of the loop body: deliver or log the IterationError
Catch(f, t, msg) ==
    IF f.onError # "undefined"
    THEN Append(t, Event("onError", f, <<f.i, msg>>))
    ELSE Append(t, Event("console.error", f, <<f.i, msg>>))

\* the try block from the resolved query to the delay
Resolved(f, t) ==
    LET g == [f EXCEPT !.responses = Append(f.responses, [iteration |-> f.i])]
        u == Progress(g, t)
    IN IF g.i < g.iterations
       THEN [run |-> [g EXCEPT !.pc = "sleep"], trace |-> u]
       ELSE NextIteration(g, u)

\* mutant: the rejection is rethrown out of the loop
RejectedAborts(f, t) == Settle(f, Catch(f, t, ERR_QUERY), Thrown(ERR_QUERY))

\* the rejected query: catch block, then the next iteration
Rejected(f, t) == NextIteration(f, Catch(f, t, ERR_QUERY))

\* the delay between iterations has elapsed
Elapsed(f, t) == NextIteration(f, Append(t, Event("delay", f, <<>>)))

(***************************************************************************)
(* runExperiment                                                           *)
(***************************************************************************)

IdleExperiment ==
    [pc |-> "none", modelsToRun |-> <<>>, k |-> 0, modelResults |-> <<>>,
     outcome |-> NoOutcome]

\* `modelsToRun`: gemini, openai, grok, each if its key is supplied
ModelsToRun(apiKeys) ==
    (IF apiKeys["gemini"] THEN <<"gemini">> ELSE <<>>) \o
    (IF apiKeys["openai"] THEN <<"openai">> ELSE <<>>) \o
    (IF apiKeys["grok"] THEN <<"grok">> ELSE <<>>)

\* the options runExperiment passes to analyzeStability for one model
RunOptions(o, m) ==
    [model |-> m, apiKey |-> TRUE, iterations |-> o.iterations,
     onProgress |-> IF o.onProgress THEN "wrapper" ELSE "undefined",
     onError |-> "undefined"]

\* the loop over modelsToRun at position x.k, or what follows the loop
ExperimentLoop(x, o, t) ==
    IF x.k <= Len(x.modelsToRun)
    THEN LET r == Invoke(RunOptions(o, x.modelsToRun[x.k]), t)
         IN [xp |-> x, run |-> r.run, trace |-> r.trace]
    ELSE [xp |-> [x EXCEPT !.pc = "done",
                    !.outcome = IF Len(x.modelResults) = 0
                                THEN Thrown(ERR_ALL_MODELS)
                                ELSE [kind |-> "returned", message |-> "",
                                      iterations |-> 0,
                                      responses |-> x.modelResults]],
          run |-> IdleRun, trace |-> t]

\* mutant: a failed model run ends the loop over the models
AfterRunAborts(x, f, t) ==
    IF f.outcome.kind = "returned"
    THEN [xp |-> [x EXCEPT !.modelResults = Append(x.modelResults,
                      [model |-> f.model, iterations |-> f.outcome.iterations])],
          trace |-> t]
    ELSE [xp |-> [x EXCEPT !.k = Len(x.modelsToRun)],
          trace |-> Append(t, Event("console.error", f, <<f.model, f.outcome.message>>))]

\* the loop body after `await analyzeStability(...)`: push, or catch and log
AfterRun(x, f, t) ==
    IF f.outcome.kind = "returned"
    THEN [xp |-> [x EXCEPT !.modelResults = Append(x.modelResults,
                      [model |-> f.model, iterations |-> f.outcome.iterations])],
          trace |-> t]
    ELSE [xp |-> x,
          trace |-> Append(t, Event("console.error", f, <<f.model, f.outcome.message>>))]

(***************************************************************************)
(* Actions                                                                 *)
(***************************************************************************)

\* the caller calls analyzeStability(options)
AnalyzeStabilityCall ==
    /\ entry = "analyzeStability" /\ run.pc = "none"
    /\ LET r == Invoke([model |-> options.model, apiKey |-> options.apiKey,
                        iterations |-> options.iterations,
                        onProgress |-> IF options.onProgress THEN "callback" ELSE "undefined",
                        onError |-> IF options.onError THEN "callback" ELSE "undefined"],
                       trace)
       IN /\ run' = r.run
          /\ trace' = r.trace
    /\ UNCHANGED <<entry, options, xp, responses, cls, libVars>>

\* the caller calls the placeholder analyzeStability of packages/core: the
\* same two checks, then 'Not yet implemented'
PlaceholderCall ==
    /\ entry = "placeholder" /\ run.pc = "none"
    /\ LET o == [model |-> options.model, apiKey |-> options.apiKey,
                 iterations |-> options.iterations]
           f == [IdleRun EXCEPT !.model = o.model, !.iterations = o.iterations]
           r == Settle(f, trace, Thrown(IF Validate(o) # "" THEN Validate(o)
                                        ELSE ERR_NOT_IMPLEMENTED))
       IN /\ run' = r.run
          /\ trace' = r.trace
    /\ UNCHANGED <<entry, options, xp, responses, cls, libVars>>

\* the awaited query resolves with a response
QueryResolves ==
    /\ run.pc = "await"
    /\ LET r == Resolved(run, Append(trace, Event("resolved", run, <<>>)))
       IN /\ run' = r.run
          /\ trace' = r.trace
    /\ UNCHANGED <<entry, options, xp, responses, cls, libVars>>

\* the awaited query rejects
QueryRejects ==
    /\ run.pc = "await"
    /\ LET r == Rejected(run, Append(trace, Event("rejected", run, <<>>)))
       IN /\ run' = r.run
          /\ trace' = r.trace
    /\ UNCHANGED <<entry, options, xp, responses, cls, libVars>>

\* the timer of the inter-iteration delay fires
DelayElapses ==
    /\ run.pc = "sleep"
    /\ LET r == Elapsed(run, trace)
       IN /\ run' = r.run
          /\ trace' = r.trace
    /\ UNCHANGED <<entry, options, xp, responses, cls, libVars>>

\* the caller calls runExperiment(options)
RunExperimentCall ==
    /\ entry = "runExperiment" /\ xp.pc = "none"
    /\ LET x == [IdleExperiment EXCEPT !.pc = "running", !.k = 1,
                    !.modelsToRun = ModelsToRun(options.apiKeys)]
       IN IF Len(x.modelsToRun) = 0
          THEN /\ xp' = [x EXCEPT !.pc = "done", !.outcome = Thrown(ERR_NO_KEYS)]
               /\ UNCHANGED <<run, trace>>
          ELSE LET r == ExperimentLoop(x, options, trace)
               IN /\ xp' = r.xp
                  /\ run' = r.run
                  /\ trace' = r.trace
    /\ UNCHANGED <<entry, options, responses, cls, libVars>>

\* runExperiment resumes when the awaited analyzeStability has settled
ExperimentResumes ==
    /\ xp.pc = "running" /\ run.pc = "done"
    /\ LET a == AfterRun(xp, run, trace)
           r == ExperimentLoop([a.xp EXCEPT !.k = a.xp.k + 1], options, a.trace)
       IN /\ xp' = r.xp
          /\ run' = r.run
          /\ trace' = r.trace
    /\ UNCHANGED <<entry, options, responses, cls, libVars>>

\* the awaited query resolves with a response and the progress callback,
\* which is the code of the caller, throws: the record is pushed, the
\* callback is called and its error is caught by the catch block of the loop
\* body, which skips the delay
QueryResolvesProgressThrows ==
    /\ run.pc = "await" /\ run.onProgress # "undefined"
    /\ LET g == [run EXCEPT !.responses = Append(run.responses, [iteration |-> run.i])]
           t == Append(trace, Event("resolved", run, <<>>))
           u == Append(Progress(g, t), Event("onProgress threw", g, <<>>))
           r == NextIteration(g, Catch(g, u, "callback error"))
       IN /\ run' = r.run
          /\ trace' = r.trace
    /\ UNCHANGED <<entry, options, xp, responses, cls, libVars>>

OrchNext ==
    \/ AnalyzeStabilityCall
    \/ PlaceholderCall
    \/ QueryResolves
    \/ QueryRejects
    \/ DelayElapses
    \/ RunExperimentCall
    \/ ExperimentResumes

\* the orchestrators with a progress callback that may throw
ThrowingNext ==
    \/ OrchNext
    \/ QueryResolvesProgressThrows

(***************************************************************************)
(* Key points: normalisation and similarity                                *)
(***************************************************************************)

\* most key points over all the Response Records of one classification
MaxKeyPoints == 5

\* the Response Records of one classification are those of a run of the
\* default size at most: `iterations = 5`
DEFAULT_ITERATIONS == 5

\* CORE_MESSAGE_THRESHOLD = 0.8 and VARIABLE_MESSAGE_THRESHOLD = 0.3, in
\* tenths; a frequency count/total is compared as 10 * count to tenths * total
\* (for totals up to 10 the double quotient count/total compares with the
\* double 0.8 or 0.3 as the fractions do)
CORE_MESSAGE_THRESHOLD == 8
VARIABLE_MESSAGE_THRESHOLD == 3

STOP_WORDS == {
    <<"t","h","e">>, <<"a">>, <<"a","n">>, <<"a","n","d">>, <<"o","r">>, <<"b","u","t">>,
    <<"i","n">>, <<"o","n">>, <<"a","t">>, <<"t","o">>, <<"f","o","r">>, <<"o","f">>,
    <<"w","i","t","h">>, <<"b","y">>, <<"f","r","o","m">>, <<"a","s">>, <<"i","s">>,
    <<"w","a","s">>, <<"a","r","e">>, <<"w","e","r","e">>, <<"b","e","e","n">>, <<"b","e">>,
    <<"h","a","v","e">>, <<"h","a","s">>, <<"h","a","d">>, <<"d","o">>, <<"d","o","e","s">>,
    <<"d","i","d">>, <<"w","i","l","l">>, <<"w","o","u","l","d">>, <<"c","o","u","l","d">>,
    <<"s","h","o","u","l","d">>, <<"m","a","y">>, <<"m","i","g","h","t">>, <<"m","u","s","t">>,
    <<"s","h","a","l","l">>, <<"c","a","n">>, <<"n","e","e","d">>, <<"t","h","a","t">>,
    <<"w","h","i","c","h">>, <<"w","h","o">>, <<"w","h","o","m">>, <<"t","h","i","s">>,
    <<"t","h","e","s","e">>, <<"t","h","o","s","e">>, <<"i","t">>, <<"i","t","s">>,
    <<"t","h","e","y">>, <<"t","h","e","m">>, <<"t","h","e","i","r">>, <<"o","u","r">>,
    <<"y","o","u","r">>, <<"h","i","s">>, <<"h","e","r">>, <<"w","e">>, <<"y","o","u">>, <<"i">>,
    <<"m","e">>, <<"m","y">>, <<"a","l","s","o">>, <<"m","o","r","e">>, <<"m","o","s","t">>,
    <<"o","t","h","e","r">>, <<"s","o","m","e">>, <<"s","u","c","h">>, <<"t","h","a","n">>,
    <<"t","o","o">>, <<"v","e","r","y">>, <<"j","u","s","t">>, <<"a","b","o","u","t">>,
    <<"i","n","t","o">>, <<"t","h","r","o","u","g","h">>, <<"d","u","r","i","n","g">>,
    <<"b","e","f","o","r","e">>, <<"a","f","t","e","r">>, <<"a","b","o","v","e">>,
    <<"b","e","l","o","w">>, <<"b","e","t","w","e","e","n">>, <<"u","n","d","e","r">>,
    <<"a","g","a","i","n">>, <<"f","u","r","t","h","e","r">>, <<"t","h","e","n">>,
    <<"o","n","c","e">>, <<"h","e","r","e">>, <<"t","h","e","r","e">>, <<"w","h","e","n">>,
    <<"w","h","e","r","e">>, <<"w","h","y">>, <<"h","o","w">>, <<"a","l","l">>, <<"e","a","c","h">>,
    <<"f","e","w">>, <<"a","n","y">>, <<"b","o","t","h">>, <<"o","n","l","y">>, <<"o","w","n">>,
    <<"s","a","m","e">>, <<"s","o">>, <<"b","e","c","a","u","s","e">>, <<"u","n","t","i","l">>,
    <<"w","h","i","l","e">> }

SYNONYM_GROUPS == {
    { <<"p","r","o","d","u","c","t">>, <<"s","e","r","v","i","c","e">>, <<"s","o","l","u","t","i","o","n">>, <<"o","f","f","e","r","i","n","g">>, <<"p","l","a","t","f","o","r","m">> },
    { <<"c","u","s","t","o","m","e","r">>, <<"c","l","i","e","n","t">>, <<"u","s","e","r">>, <<"c","o","n","s","u","m","e","r">>, <<"b","u","y","e","r">> },
    { <<"q","u","a","l","i","t","y">>, <<"e","x","c","e","l","l","e","n","t">>, <<"s","u","p","e","r","i","o","r">>, <<"p","r","e","m","i","u","m">>, <<"h","i","g","h","-","e","n","d">> },
    { <<"p","r","i","c","e">>, <<"c","o","s","t">>, <<"p","r","i","c","i","n","g">>, <<"v","a","l","u","e">>, <<"a","f","f","o","r","d","a","b","l","e">> },
    { <<"f","a","s","t">>, <<"q","u","i","c","k">>, <<"r","a","p","i","d">>, <<"s","p","e","e","d","y">>, <<"e","f","f","i","c","i","e","n","t">> },
    { <<"r","e","l","i","a","b","l","e">>, <<"d","e","p","e","n","d","a","b","l","e">>, <<"t","r","u","s","t","w","o","r","t","h","y">>, <<"s","t","a","b","l","e">>, <<"c","o","n","s","i","s","t","e","n","t">> },
    { <<"i","n","n","o","v","a","t","i","v","e">>, <<"c","r","e","a","t","i","v","e">>, <<"n","o","v","e","l">>, <<"c","u","t","t","i","n","g","-","e","d","g","e">>, <<"a","d","v","a","n","c","e","d">> },
    { <<"e","x","p","e","r","i","e","n","c","e">>, <<"e","x","p","e","r","t","i","s","e">>, <<"k","n","o","w","l","e","d","g","e">>, <<"s","k","i","l","l">>, <<"p","r","o","f","i","c","i","e","n","c","y">> },
    { <<"s","u","p","p","o","r","t">>, <<"h","e","l","p">>, <<"a","s","s","i","s","t","a","n","c","e">>, <<"s","e","r","v","i","c","e">>, <<"c","a","r","e">> },
    { <<"l","e","a","d","e","r">>, <<"l","e","a","d","i","n","g">>, <<"t","o","p">>, <<"b","e","s","t">>, <<"p","r","e","m","i","e","r">>, <<"f","o","r","e","m","o","s","t">> },
    { <<"r","e","c","o","m","m","e","n","d">>, <<"s","u","g","g","e","s","t">>, <<"a","d","v","i","s","e">>, <<"p","r","o","p","o","s","e">> },
    { <<"b","e","n","e","f","i","t">>, <<"a","d","v","a","n","t","a","g","e">>, <<"s","t","r","e","n","g","t","h">>, <<"a","s","s","e","t">> },
    { <<"i","s","s","u","e">>, <<"p","r","o","b","l","e","m">>, <<"c","h","a","l","l","e","n","g","e">>, <<"c","o","n","c","e","r","n">>, <<"d","i","f","f","i","c","u","l","t","y">> },
    { <<"i","m","p","r","o","v","e">>, <<"e","n","h","a","n","c","e">>, <<"o","p","t","i","m","i","z","e">>, <<"u","p","g","r","a","d","e">>, <<"b","o","o","s","t">> },
    { <<"m","a","r","k","e","t">>, <<"i","n","d","u","s","t","r","y">>, <<"s","e","c","t","o","r">>, <<"f","i","e","l","d">>, <<"s","p","a","c","e">> } }

UpperCase ==
    <<"A","B","C","D","E","F","G","H","I","J","K","L","M",
      "N","O","P","Q","R","S","T","U","V","W","X","Y","Z">>

LowerCase ==
    <<"a","b","c","d","e","f","g","h","i","j","k","l","m",
      "n","o","p","q","r","s","t","u","v","w","x","y","z">>

Digits == {"0","1","2","3","4","5","6","7","8","9"}

Range(q) == {q[k] : k \in 1..Len(q)}

Min(a, b) == IF a <= b THEN a ELSE b

\* String.prototype.toLowerCase, character by character
ToLowerCase(str) ==
    [k \in 1..Len(str) |->
        IF \E u \in 1..26 : UpperCase[u] = str[k]
        THEN LowerCase[CHOOSE u \in 1..26 : UpperCase[u] = str[k]]
        ELSE str[k]]

\* replace(/\s+/g, ' '): a run of white space becomes one space
RECURSIVE CollapseSpaces(_)
CollapseSpaces(str) ==
    IF Len(str) <= 1 THEN str
    ELSE IF str[1] = " " /\ str[2] = " "
         THEN CollapseSpaces(Tail(str))
         ELSE <<str[1]>> \o CollapseSpaces(Tail(str))

\* String.prototype.trim
RECURSIVE Trim(_)
Trim(str) ==
    IF str = <<>> THEN str
    ELSE IF str[1] = " " THEN Trim(Tail(str))
    ELSE IF str[Len(str)] = " " THEN Trim(SubSeq(str, 1, Len(str) - 1))
    ELSE str

\* lower case; replace(/[^\p{L}\p{N}\s-]/gu, ''), where letters, digits,
\* white space and the hyphen stay; one space for a run; trim
normalizeKeyPoint(keyPoint) ==
    Trim(CollapseSpaces(
        SelectSeq(ToLowerCase(keyPoint), LAMBDA c :
            c \in Range(UpperCase) \cup Range(LowerCase) \cup Digits \cup {" ", "-"})))

\* String.prototype.split(' ')
RECURSIVE Split(_)
Split(str) ==
    IF \E k \in 1..Len(str) : str[k] = " "
    THEN LET k == CHOOSE n \in 1..Len(str) :
                     str[n] = " " /\ \A j \in 1..(n - 1) : str[j] # " "
         IN <<SubSeq(str, 1, k - 1)>> \o Split(SubSeq(str, k + 1, Len(str)))
    ELSE <<str>>

getSignificantWords(text) ==
    {w \in {ToLowerCase(x) : x \in Range(Split(text))} :
        Len(w) > 2 /\ w \notin STOP_WORDS}

\* Math.floor(minLen * 0.6) is (6 * minLen) \div 10
shareWordStem(a, b) ==
    LET minLen == Min(Len(a), Len(b))
        prefixLen == Min(5, (6 * minLen) \div 10)
    IN IF minLen < 5 THEN FALSE
       ELSE SubSeq(a, 1, prefixLen) = SubSeq(b, 1, prefixLen)

areSynonyms(a, b) == \E group \in SYNONYM_GROUPS : a \in group /\ b \in group

\* similarity = (direct + 0.8 * stem + 0.7 * concept) / minWords >= 0.3,
\* compared in tenths
areSimilarKeyPoints(a, b) ==
    LET wordsA == getSignificantWords(a)
        wordsB == getSignificantWords(b)
        directOverlap == Cardinality({w \in wordsA : w \in wordsB})
        stemOverlap == Cardinality({wordA \in wordsA :
            \E wordB \in wordsB : wordA # wordB /\ shareWordStem(wordA, wordB)})
        conceptOverlap == Cardinality({wordA \in wordsA :
            \E wordB \in wordsB : wordA # wordB /\ areSynonyms(wordA, wordB)})
        minWords == Min(Cardinality(wordsA), Cardinality(wordsB))
    IN IF wordsA = {} \/ wordsB = {} THEN FALSE
       ELSE 10 * directOverlap + 8 * stemOverlap + 7 * conceptOverlap >= 3 * minWords

(***************************************************************************)
(* classifyKeyMessages                                                     *)
(***************************************************************************)

\* ResponseData.keyPoints holds key points by name; Text is what they say
\* "ItIs" is a sentence of stop words and short words only
KeyPoints == {"Asana", "Trello", "Tracks", "ItIs"}

Text == [keyPoint \in KeyPoints |->
            CASE keyPoint = "Asana" ->
                    <<"A","s","a","n","a"," ","i","s"," ","g","r","e","a","t"," ",
                      "f","o","r"," ","t","a","s","k"," ",
                      "t","r","a","c","k","i","n","g">>
              [] keyPoint = "Trello" ->
                    <<"T","r","e","l","l","o"," ","w","o","r","k","s"," ",
                      "w","e","l","l">>
              [] keyPoint = "Tracks" ->
                    <<"T","r","a","c","k","s"," ","t","a","s","k","s">>
              [] keyPoint = "ItIs" ->
                    <<"I","t"," ","i","s"," ","a","s"," ","i","t"," ","i","s"," ",
                      "f","o","r"," ","t","h","e","m"," ","a","l","l">>]

\* normalizeKeyPoint and areSimilarKeyPoints, tabulated once over the key
\* points of the model
Normalized == [keyPoint \in KeyPoints |-> normalizeKeyPoint(Text[keyPoint])]

NormalizedTexts == {Normalized[keyPoint] : keyPoint \in KeyPoints}

Similar == [a \in NormalizedTexts, b \in NormalizedTexts |-> areSimilarKeyPoints(a, b)]

\* keyPointFrequency is a Map: a sequence of entries in insertion order
\* with distinct keys
\* Map.prototype.set: a present key keeps its place and gets the value
MapSet(map, key, value) ==
    IF \E c \in 1..Len(map) : map[c].key = key
    THEN [c \in 1..Len(map) |->
             IF map[c].key = key THEN [key |-> key, iterations |-> value] ELSE map[c]]
    ELSE Append(map, [key |-> key, iterations |-> value])

\* mutant: a matching cluster is overwritten with the current iteration
ClusterKeyPointOverwrites(map, keyPoint, iteration) ==
    LET normalized == Normalized[keyPoint]
        similar == {c \in 1..Len(map) : Similar[normalized, map[c].key]}
    IN IF similar # {}
       THEN LET c == CHOOSE n \in similar : \A o \in similar : n <= o
            IN [map EXCEPT ![c].iterations = {iteration}]
       ELSE MapSet(map, normalized, {iteration})

\* the body of the inner loop: the key point joins the first similar
\* cluster, or is set as a new one
ClusterKeyPoint(map, keyPoint, iteration) ==
    LET normalized == Normalized[keyPoint]
        similar == {c \in 1..Len(map) : Similar[normalized, map[c].key]}
    IN IF similar # {}
       THEN LET c == CHOOSE n \in similar : \A o \in similar : n <= o
            IN [map EXCEPT ![c].iterations = @ \cup {iteration}]
       ELSE MapSet(map, normalized, {iteration})

\* Array.from(set).sort((a, b) => a - b)
RECURSIVE SortedSeq(_)
SortedSeq(set) ==
    IF set = {} THEN <<>>
    ELSE LET least == CHOOSE x \in set : \A y \in set : x <= y
         IN <<least>> \o SortedSeq(set \ {least})

\* Math.round(frequency * 100) for frequency = count / total
FrequencyPercent(count, total) == (200 * count + total) \div (2 * total)

\* mutant: the core threshold is compared with > instead of >=
BucketStrict(count, total) ==
    IF 10 * count > CORE_MESSAGE_THRESHOLD * total THEN "core"
    ELSE IF 10 * count >= VARIABLE_MESSAGE_THRESHOLD * total THEN "variable"
    ELSE "outlier"

\* the bucket of a cluster: the if / else if / else of the second loop
Bucket(count, total) ==
    IF 10 * count >= CORE_MESSAGE_THRESHOLD * total THEN "core"
    ELSE IF 10 * count >= VARIABLE_MESSAGE_THRESHOLD * total THEN "variable"
    ELSE "outlier"

\* the second loop and the returned object
Classification(map, totalIterations) ==
    LET bucketOf(c) == Bucket(Cardinality(map[c].iterations), totalIterations)
        entries(b) == SelectSeq([c \in 1..Len(map) |-> c], LAMBDA c : bucketOf(c) = b)
    IN [coreStableMessages |->
            [n \in 1..Len(entries("core")) |-> map[entries("core")[n]].key],
        variableMessages |->
            [n \in 1..Len(entries("variable")) |->
                LET e == map[entries("variable")[n]]
                IN [message |-> e.key,
                    frequency |-> FrequencyPercent(Cardinality(e.iterations), totalIterations),
                    appearancePattern |-> SortedSeq(e.iterations)]],
        outliers |->
            [n \in 1..Len(entries("outlier")) |-> map[entries("outlier")[n]].key],
        keyPointFrequency |->
            [n \in 1..Len(map) |->
                [key |-> map[n].key, count |-> Cardinality(map[n].iterations)]]]

IdleClassify ==
    [pc |-> "none", i |-> 0, j |-> 0, keyPointFrequency |-> <<>>,
     result |-> [coreStableMessages |-> <<>>, variableMessages |-> <<>>,
                 outliers |-> <<>>, keyPointFrequency |-> <<>>]]

\* the next position of the nested loops at or after (i, j) that holds a
\* key point; i is one past the responses when there is none
RECURSIVE NextKeyPoint(_, _)
NextKeyPoint(i, j) ==
    IF i > Len(responses) THEN [i |-> i, j |-> 1]
    ELSE IF j <= Len(responses[i].keyPoints) THEN [i |-> i, j |-> j]
    ELSE NextKeyPoint(i + 1, 1)

\* a Response Record with the key points of one response joins the input:
\* every iteration so far succeeded, the key points are those of the
\* scenario of the spec
ResponseRecorded ==
    /\ cls.pc = "none"
    /\ Len(responses) < DEFAULT_ITERATIONS
    /\ \E n \in 0..(MaxKeyPoints
                      - LET RECURSIVE Total(_)
                            Total(c) == IF c = 0 THEN 0
                                        ELSE Len(responses[c].keyPoints) + Total(c - 1)
                        IN Total(Len(responses))) :
         \E keyPoints \in [1..n -> {"Asana", "Trello", "Tracks"}] :
            responses' = Append(responses, [iteration |-> Len(responses) + 1,
                                            keyPoints |-> keyPoints])
    /\ UNCHANGED <<cls, entry, options, run, xp, trace, libVars>>

\* classifyKeyMessages(responses) is called; analyzeStability calls it with
\* at least one Response Record
ClassifyCall ==
    /\ cls.pc = "none"
    /\ Len(responses) >= 1
    /\ cls' = [cls EXCEPT !.pc = "cluster",
                          !.i = NextKeyPoint(1, 1).i, !.j = NextKeyPoint(1, 1).j]
    /\ UNCHANGED <<responses, entry, options, run, xp, trace, libVars>>

\* one pass of the inner loop of the first loop nest
ClusterStep ==
    /\ cls.pc = "cluster"
    /\ cls.i <= Len(responses)
    /\ LET next == NextKeyPoint(cls.i, cls.j + 1)
       IN cls' = [cls EXCEPT
                    !.keyPointFrequency =
                        ClusterKeyPoint(@, responses[cls.i].keyPoints[cls.j], cls.i),
                    !.i = next.i, !.j = next.j]
    /\ UNCHANGED <<responses, entry, options, run, xp, trace, libVars>>

\* the second loop: the clusters are put in their buckets and returned
ClassifyReturn ==
    /\ cls.pc = "cluster"
    /\ cls.i > Len(responses)
    /\ cls' = [cls EXCEPT !.pc = "done",
                 !.result = Classification(cls.keyPointFrequency, Len(responses))]
    /\ UNCHANGED <<responses, entry, options, run, xp, trace, libVars>>

\* the Response Records a run of analyzeStability leaves for iterations
\* i..MaxRunIterations: an iteration fails, or pushes a record with its own
\* index and its key points, at most total key points in all
RECURSIVE RunResponses(_, _)
RunResponses(i, total) ==
    IF i > MaxRunIterations THEN {<<>>}
    ELSE RunResponses(i + 1, total)
           \cup UNION {
                  {<<[iteration |-> i, keyPoints |-> keyPoints]>> \o rest :
                      keyPoints \in [1..n -> KeyPoints],
                      rest \in RunResponses(i + 1, total - n)} :
                  n \in 0..total}

\* classifyKeyMessages as analyzeStability calls it after the loop
AnalysisNext ==
    \/ ClassifyCall
    \/ ClusterStep
    \/ ClassifyReturn

ClassNext ==
    \/ ResponseRecorded
    \/ ClassifyCall
    \/ ClusterStep
    \/ ClassifyReturn

(***************************************************************************)
(* cleanResponse                                                           *)
(*                                                                         *)
(* Each replace scans the string from left to right; a match is replaced   *)
(* and the scan goes on behind it, on the string as it was.  Positions     *)
(* count from 1.                                                           *)
(***************************************************************************)

\* \s
WhiteSpace == {" ", "\n"}

\* ^ under the m flag: the start of the string or just behind a line break
LineStart(str, p) == p = 1 \/ str[p - 1] = "\n"

\* the first position from p on whose character is not in set (a greedy X*)
RECURSIVE SkipWhile(_, _, _)
SkipWhile(str, p, set) ==
    IF p <= Len(str) /\ str[p] \in set THEN SkipWhile(str, p + 1, set) ELSE p

\* str has the characters of marker at position p
HasAt(str, p, marker) ==
    /\ p + Len(marker) - 1 <= Len(str)
    /\ \A k \in 1..Len(marker) : str[p + k - 1] = marker[k]

\* replace(/^#{1,6}\s*/gm, '')
RECURSIVE RemoveHeaders(_, _)
RemoveHeaders(str, p) ==
    IF p > Len(str) THEN <<>>
    ELSE IF LineStart(str, p) /\ str[p] = "#"
         THEN LET hashes == Min(SkipWhile(str, p, {"#"}), p + 6)
              IN RemoveHeaders(str, SkipWhile(str, hashes, WhiteSpace))
         ELSE <<str[p]>> \o RemoveHeaders(str, p + 1)

\* where the lazy (.+?) followed by marker ends when it starts at position p:
\* the first marker behind at least one character, no line break before it;
\* 0 when there is none
CloseOf(str, p, marker) ==
    LET closers == {q \in (p + 1)..Len(str) :
                       /\ HasAt(str, q, marker)
                       /\ \A k \in p..(q - 1) : str[k] # "\n"}
    IN IF closers = {} THEN 0
       ELSE CHOOSE q \in closers : \A r \in closers : q <= r

\* replace(/\*\*(.+?)\*\*/g, '$1') and its like for *, __ and _
RECURSIVE RemoveMarkers(_, _, _)
RemoveMarkers(str, p, marker) ==
    IF p > Len(str) THEN <<>>
    ELSE LET inner == p + Len(marker)
             close == IF HasAt(str, p, marker) THEN CloseOf(str, inner, marker)
                      ELSE 0
         IN IF close # 0
            THEN SubSeq(str, inner, close - 1)
                   \o RemoveMarkers(str, close + Len(marker), marker)
            ELSE <<str[p]>> \o RemoveMarkers(str, p + 1, marker)

\* replace(/^\s*[-*]\s*/gm, '')
RECURSIVE RemoveBullets(_, _)
RemoveBullets(str, p) ==
    IF p > Len(str) THEN <<>>
    ELSE LET bullet == SkipWhile(str, p, WhiteSpace)
         IN IF LineStart(str, p) /\ bullet <= Len(str) /\ str[bullet] \in {"-", "*"}
            THEN RemoveBullets(str, SkipWhile(str, bullet + 1, WhiteSpace))
            ELSE <<str[p]>> \o RemoveBullets(str, p + 1)

\* replace(/^\s*\d+\.\s*/gm, '')
RECURSIVE RemoveNumbers(_, _)
RemoveNumbers(str, p) ==
    IF p > Len(str) THEN <<>>
    ELSE LET number == SkipWhile(str, p, WhiteSpace)
             dot    == SkipWhile(str, number, Digits)
         IN IF /\ LineStart(str, p)
               /\ dot > number
               /\ dot <= Len(str) /\ str[dot] = "."
            THEN RemoveNumbers(str, SkipWhile(str, dot + 1, WhiteSpace))
            ELSE <<str[p]>> \o RemoveNumbers(str, p + 1)

\* the character U+0060, which a string of this language cannot hold
BACKQUOTE == "U+0060"

FENCE == <<BACKQUOTE, BACKQUOTE, BACKQUOTE>>

\* the replace of a fenced code block, three backquotes up to the next three
\* with anything between them, by nothing
RECURSIVE RemoveCodeBlocks(_, _)
RemoveCodeBlocks(str, p) ==
    IF p > Len(str) THEN <<>>
    ELSE LET closers == {q \in (p + 3)..Len(str) : HasAt(str, q, FENCE)}
         IN IF HasAt(str, p, FENCE) /\ closers # {}
            THEN RemoveCodeBlocks(str,
                     3 + CHOOSE q \in closers : \A r \in closers : q <= r)
            ELSE <<str[p]>> \o RemoveCodeBlocks(str, p + 1)

\* the replace of inline code, a backquote, one or more characters that are
\* not backquotes and a backquote, by the characters between
RECURSIVE RemoveInlineCode(_, _)
RemoveInlineCode(str, p) ==
    IF p > Len(str) THEN <<>>
    ELSE LET close == SkipWhile(str, p + 1, Range(str) \ {BACKQUOTE})
         IN IF str[p] = BACKQUOTE /\ close > p + 1 /\ close <= Len(str)
            THEN SubSeq(str, p + 1, close - 1) \o RemoveInlineCode(str, close + 1)
            ELSE <<str[p]>> \o RemoveInlineCode(str, p + 1)

\* the replace of two or more line breaks by one and of two or more spaces
\* by one: a run of c becomes one c
RECURSIVE CollapseRuns(_, _)
CollapseRuns(str, c) ==
    IF Len(str) <= 1 THEN str
    ELSE IF str[1] = c /\ str[2] = c
         THEN CollapseRuns(Tail(str), c)
         ELSE <<str[1]>> \o CollapseRuns(Tail(str), c)

\* String.prototype.trim, on a string that may hold line breaks
RECURSIVE TrimWhiteSpace(_)
TrimWhiteSpace(str) ==
    IF str = <<>> THEN str
    ELSE IF str[1] \in WhiteSpace THEN TrimWhiteSpace(Tail(str))
    ELSE IF str[Len(str)] \in WhiteSpace
         THEN TrimWhiteSpace(SubSeq(str, 1, Len(str) - 1))
    ELSE str

cleanResponse(text) ==
    LET headers  == RemoveHeaders(text, 1)
        bold     == RemoveMarkers(headers, 1, <<"*", "*">>)
        italic   == RemoveMarkers(bold, 1, <<"*">>)
        bold2    == RemoveMarkers(italic, 1, <<"_", "_">>)
        italic2  == RemoveMarkers(bold2, 1, <<"_">>)
        bullets  == RemoveBullets(italic2, 1)
        numbers  == RemoveNumbers(bullets, 1)
        blocks   == RemoveCodeBlocks(numbers, 1)
        code     == RemoveInlineCode(blocks, 1)
        lines    == CollapseRuns(code, "\n")
        spaces   == CollapseRuns(lines, " ")
    IN TrimWhiteSpace(spaces)

(***************************************************************************)
(* BrandDetector                                                           *)
(*                                                                         *)
(* Offsets are those of the program: they count from 0, and endIndex is    *)
(* the offset behind the last character.                                   *)
(***************************************************************************)

\* the entries of a Map, in insertion order, with distinct keys
Has(map, key) == \E c \in 1..Len(map) : map[c].key = key

\* Map.prototype.get of a present key
Get(map, key) == map[CHOOSE c \in 1..Len(map) : map[c].key = key].value

\* Map.prototype.set: a present key keeps its place and gets the value
Put(map, key, value) ==
    IF Has(map, key)
    THEN [c \in 1..Len(map) |->
             IF map[c].key = key THEN [key |-> key, value |-> value] ELSE map[c]]
    ELSE Append(map, [key |-> key, value |-> value])

\* for (const brand of db.brands) normalizedMap.set(brand.toLowerCase(), brand)
RECURSIVE NormalizedMap(_, _)
NormalizedMap(brands, map) ==
    IF brands = <<>> THEN map
    ELSE NormalizedMap(Tail(brands),
                       Put(map, ToLowerCase(Head(brands)), Head(brands)))

\* the constructor throws a TypeError when it reads db.meta.ignored_terms of a
\* database without meta, or iterates the brands of one without brands
ConstructorThrows(db) == "meta" \notin DOMAIN db \/ "brands" \notin DOMAIN db

\* the object the constructor leaves, from the database db it reads
BrandDetector(db) ==
    LET \* new Set(x): the members of the list x, none when x is undefined
        NewSet(object, field) ==
            IF field \in DOMAIN object THEN Range(object[field]) ELSE {}
    IN
    [highConfidenceSet |-> NewSet(db, "high_confidence"),
     ignoredTermsSet   |-> NewSet(db.meta, "ignored_terms"),
     normalizedMap     |-> NormalizedMap(db.brands, <<>>)]

\* a value that is falsy: the empty string
Falsy(str) == str = <<>>

isBrand(d, text) == Has(d.normalizedMap, ToLowerCase(text))

\* mutant: the ignored terms are looked at before the high-confidence names
getConfidenceIgnoredFirst(d, text) ==
    IF ~Has(d.normalizedMap, ToLowerCase(text)) THEN "null"
    ELSE LET normalized == Get(d.normalizedMap, ToLowerCase(text))
         IN IF Falsy(normalized) THEN "null"
            ELSE IF ToLowerCase(text) \in d.ignoredTermsSet THEN "low"
            ELSE IF normalized \in d.highConfidenceSet THEN "high"
            ELSE "medium"

getConfidence(d, text) ==
    IF ~Has(d.normalizedMap, ToLowerCase(text)) THEN "null"
    ELSE LET normalized == Get(d.normalizedMap, ToLowerCase(text))
         IN IF Falsy(normalized) THEN "null"
            ELSE IF normalized \in d.highConfidenceSet THEN "high"
            ELSE IF ToLowerCase(text) \in d.ignoredTermsSet THEN "low"
            ELSE "medium"

\* the characters of /[\w.-]+/
TokenChars ==
    Range(UpperCase) \cup Range(LowerCase) \cup Digits \cup {"_", ".", "-"}

\* tokenize: the maximal runs of token characters from position p on
RECURSIVE tokenize(_, _)
tokenize(text, p) ==
    IF p > Len(text) THEN <<>>
    ELSE IF text[p] \notin TokenChars THEN tokenize(text, p + 1)
    ELSE LET end == SkipWhile(text, p, TokenChars)
         IN <<[text |-> SubSeq(text, p, end - 1),
               startIndex |-> p - 1, endIndex |-> end - 1]>>
              \o tokenize(text, end)

\* Array.prototype.join(' ')
RECURSIVE JoinStrings(_)
JoinStrings(strings) ==
    IF strings = <<>> THEN <<>>
    ELSE IF Len(strings) = 1 THEN strings[1]
    ELSE strings[1] \o <<" ">> \o JoinStrings(Tail(strings))

meetsMinConfidence(confidence, minConfidence) ==
    LET levels == [high |-> 3, medium |-> 2, low |-> 1]
    IN levels[confidence] >= levels[minConfidence]

\* const { minConfidence = 'low', maxResults = Infinity } = options
MinConfidence(o) == IF "minConfidence" \in DOMAIN o THEN o.minConfidence ELSE "low"

\* mutant: the span ends with the word behind the candidate
CandidateEndsAtNextWord(d, words, i, len, detected, minConfidence) ==
    LET candidate == JoinStrings([c \in 1..len |-> words[i + c - 1].text])
        key == ToLowerCase(candidate)
    IN IF Has(d.normalizedMap, key) /\ ~Falsy(Get(d.normalizedMap, key))
       THEN Append(detected,
                   [name |-> candidate, normalized |-> Get(d.normalizedMap, key),
                    confidence |-> getConfidence(d, Get(d.normalizedMap, key)),
                    startIndex |-> words[i].startIndex,
                    endIndex |-> words[Min(i + len, Len(words))].endIndex])
       ELSE detected

\* the body of the inner loop: the candidate of len words from word i
Candidate(d, words, i, len, detected, minConfidence) ==
    LET candidate == JoinStrings([c \in 1..len |-> words[i + c - 1].text])
        key == ToLowerCase(candidate)
    IN IF Has(d.normalizedMap, key) /\ ~Falsy(Get(d.normalizedMap, key))
       THEN LET normalized == Get(d.normalizedMap, key)
                confidence == getConfidence(d, normalized)
                startIndex == words[i].startIndex
                endIndex   == words[i + len - 1].endIndex
                alreadyDetected ==
                    \E c \in 1..Len(detected) :
                        /\ detected[c].startIndex = startIndex
                        /\ detected[c].endIndex = endIndex
            IN IF /\ confidence # "null"
                  /\ meetsMinConfidence(confidence, minConfidence)
                  /\ ~alreadyDetected
               THEN Append(detected,
                           [name |-> candidate, normalized |-> normalized,
                            confidence |-> confidence,
                            startIndex |-> startIndex, endIndex |-> endIndex])
               ELSE detected
       ELSE detected

\* the two loops, from word i (counted from 1) and length len on
RECURSIVE Candidates(_, _, _, _, _, _)
Candidates(d, words, i, len, detected, minConfidence) ==
    IF i > Len(words) THEN detected
    ELSE IF len > Min(3, Len(words) - i + 1)
         THEN Candidates(d, words, i + 1, 1, detected, minConfidence)
         ELSE Candidates(d, words, i, len + 1,
                         Candidate(d, words, i, len, detected, minConfidence),
                         minConfidence)

\* mutant: the comparator is b.startIndex - a.startIndex
RECURSIVE SortByStartIndexDescending(_)
SortByStartIndexDescending(detected) ==
    IF detected = <<>> THEN <<>>
    ELSE LET first == CHOOSE c \in 1..Len(detected) :
                 \A o \in 1..Len(detected) :
                     \/ detected[c].startIndex > detected[o].startIndex
                     \/ detected[c].startIndex = detected[o].startIndex /\ c <= o
         IN <<detected[first]>>
              \o SortByStartIndexDescending([c \in 1..(Len(detected) - 1) |->
                                      IF c < first THEN detected[c]
                                      ELSE detected[c + 1]])

\* detected.sort((a, b) => a.startIndex - b.startIndex): a stable sort
RECURSIVE SortByStartIndex(_)
SortByStartIndex(detected) ==
    IF detected = <<>> THEN <<>>
    ELSE LET first == CHOOSE c \in 1..Len(detected) :
                 \A o \in 1..Len(detected) :
                     \/ detected[c].startIndex < detected[o].startIndex
                     \/ detected[c].startIndex = detected[o].startIndex /\ c <= o
         IN <<detected[first]>>
              \o SortByStartIndex([c \in 1..(Len(detected) - 1) |->
                                      IF c < first THEN detected[c]
                                      ELSE detected[c + 1]])

detectBrands(d, text, o) ==
    LET sorted == SortByStartIndex(
                      Candidates(d, tokenize(text, 1), 1, 1, <<>>, MinConfidence(o)))
    IN \* detected.slice(0, maxResults), maxResults = Infinity when left out
       IF "maxResults" \in DOMAIN o
       THEN SubSeq(sorted, 1, Min(o.maxResults, Len(sorted)))
       ELSE sorted

\* extractContextWindow
extractContextWindow(text, startIndex, endIndex, radius) ==
    LET contextStart == IF startIndex - radius > 0 THEN startIndex - radius ELSE 0
        contextEnd   == Min(Len(text), endIndex + radius)
    IN (IF contextStart > 0 THEN <<".", ".", ".">> ELSE <<>>)
         \o SubSeq(text, contextStart + 1, contextEnd)
         \o (IF contextEnd < Len(text) THEN <<".", ".", ".">> ELSE <<>>)

\* the groups of the detected occurrences by canonical name, a Map
RECURSIVE BrandGroups(_, _)
BrandGroups(detected, groups) ==
    IF detected = <<>> THEN groups
    ELSE LET brand == Head(detected)
             existing == IF Has(groups, brand.normalized)
                         THEN Get(groups, brand.normalized) ELSE <<>>
         IN BrandGroups(Tail(detected),
                        Put(groups, brand.normalized, Append(existing, brand)))

\* mutant: the mentions are left in the order of first detection
SortByCountUnsorted(mentions) == mentions

\* mentions.sort((a, b) => b.count - a.count): a stable sort
RECURSIVE SortByCount(_)
SortByCount(mentions) ==
    IF mentions = <<>> THEN <<>>
    ELSE LET first == CHOOSE c \in 1..Len(mentions) :
                 \A o \in 1..Len(mentions) :
                     \/ mentions[c].count > mentions[o].count
                     \/ mentions[c].count = mentions[o].count /\ c <= o
         IN <<mentions[first]>>
              \o SortByCount([c \in 1..(Len(mentions) - 1) |->
                                 IF c < first THEN mentions[c] ELSE mentions[c + 1]])

RECURSIVE Sum(_)
Sum(numbers) == IF numbers = <<>> THEN 0 ELSE Head(numbers) + Sum(Tail(numbers))

\* const { extended = false, contextRadius = 50, minConfidence = 'low' } = options
DEFAULT_CONTEXT_RADIUS == 50

analyzeLLMResponse(d, llmResponse, o) ==
    LET extended == "extended" \in DOMAIN o /\ o.extended
        contextRadius == IF "contextRadius" \in DOMAIN o THEN o.contextRadius
                         ELSE DEFAULT_CONTEXT_RADIUS
        detectedBrands == detectBrands(d, llmResponse,
                                       [minConfidence |-> MinConfidence(o)])
        brandGroups == BrandGroups(detectedBrands, <<>>)
        Mention(group) ==
            IF extended
            THEN [brand |-> group.key, count |-> Len(group.value),
                  confidence |-> group.value[1].confidence,
                  contexts |-> [c \in 1..Len(group.value) |->
                                   extractContextWindow(llmResponse,
                                       group.value[c].startIndex,
                                       group.value[c].endIndex, contextRadius)]]
            ELSE [brand |-> group.key, count |-> Len(group.value),
                  confidence |-> group.value[1].confidence]
        mentions == SortByCount([c \in 1..Len(brandGroups) |-> Mention(brandGroups[c])])
    IN [totalBrands   |-> Len(mentions),
        totalMentions |-> Sum([c \in 1..Len(mentions) |-> mentions[c].count]),
        mentions      |-> mentions,
        topBrand      |-> IF Len(mentions) > 0 THEN <<mentions[1].brand>> ELSE <<>>]

\* the order of the UTF-16 code units of the characters of brand names
CODE_UNITS ==
    <<" ", "-", ".">> \o <<"0","1","2","3","4","5","6","7","8","9">>
      \o UpperCase \o <<"_">> \o LowerCase

\* the order of Array.prototype.sort without a comparator
RECURSIVE Precedes(_, _)
Precedes(a, b) ==
    IF a = <<>> THEN b # <<>>
    ELSE IF b = <<>> THEN FALSE
    ELSE IF a[1] = b[1] THEN Precedes(Tail(a), Tail(b))
    ELSE LET CodeUnit(c) == CHOOSE n \in 1..Len(CODE_UNITS) : CODE_UNITS[n] = c
         IN CodeUnit(a[1]) < CodeUnit(b[1])

\* suggestions.sort()
RECURSIVE Sort(_)
Sort(names) ==
    IF names = <<>> THEN <<>>
    ELSE LET first == CHOOSE c \in 1..Len(names) :
                 \A o \in 1..Len(names) :
                     \/ Precedes(names[c], names[o])
                     \/ ~Precedes(names[o], names[c]) /\ c <= o
         IN <<names[first]>>
              \o Sort([c \in 1..(Len(names) - 1) |->
                          IF c < first THEN names[c] ELSE names[c + 1]])

\* String.prototype.startsWith
StartsWith(str, prefix) ==
    Len(prefix) <= Len(str) /\ SubSeq(str, 1, Len(prefix)) = prefix

DEFAULT_LIMIT == 10

\* the loop of getSuggestions from entry c of the Map on
RECURSIVE Suggestions(_, _, _, _, _)
Suggestions(map, c, lowerPartial, limit, suggestions) ==
    IF c > Len(map) THEN suggestions
    ELSE IF StartsWith(map[c].key, lowerPartial)
         THEN IF Len(suggestions) + 1 >= limit
              THEN Append(suggestions, map[c].value)
              ELSE Suggestions(map, c + 1, lowerPartial, limit,
                               Append(suggestions, map[c].value))
         ELSE Suggestions(map, c + 1, lowerPartial, limit, suggestions)

getSuggestions(d, partial, o) ==
    Sort(Suggestions(d.normalizedMap, 1, ToLowerCase(partial),
                     IF "limit" \in DOMAIN o THEN o.limit ELSE DEFAULT_LIMIT, <<>>))

(***************************************************************************)
(* Statistics                                                              *)
(*                                                                         *)
(* The numbers of the program are doubles.  A semantic overlap and a count *)
(* are whole numbers; a variance is a whole number of hundredths, as       *)
(* Math.round(variance * 100) / 100 leaves it, and is kept in hundredths;  *)
(* a Gini coefficient is a whole number of thousandths, as                 *)
(* Math.round(x * 1000) / 1000 leaves it, and is kept in thousandths.      *)
(***************************************************************************)

Max(a, b) == IF a >= b THEN a ELSE b

\* the arguments <<semanticOverlap, variance, coreMessagesCount>> for which
\* overlapScore * 0.4 + varianceScore * 0.3 + coreScore * 0.3 is k + 1/2 and
\* its evaluation in doubles
\* is below k + 1/2 (at variance 2.75: (2.75 / 5) * 100 is 55.00000000000001
\* and 44.99999999999999 * 0.3 is 13.499999999999996); at every other
\* argument Math.round of the double is Math.round of the sum
DOUBLE_BELOW_HALF ==
    {
      <<0, 275, 0>>, <<1, 15, 0>>, <<1, 65, 0>>, <<1, 115, 0>>, <<1, 115, 1>>,
      <<1, 165, 0>>, <<1, 165, 1>>, <<1, 215, 0>>, <<1, 215, 1>>, <<1, 215, 2>>,
      <<3, 245, 0>>, <<3, 245, 1>>, <<3, 245, 2>>, <<3, 295, 0>>, <<3, 295, 1>>,
      <<3, 295, 2>>, <<3, 295, 3>>, <<4, 285, 0>>, <<4, 285, 1>>, <<4, 285, 2>>,
      <<5, 275, 0>>, <<8, 245, 0>>, <<8, 245, 1>>, <<8, 245, 2>>, <<8, 295, 0>>,
      <<8, 295, 1>>, <<8, 295, 2>>, <<9, 285, 0>>, <<9, 285, 1>>, <<9, 285, 2>>,
      <<13, 245, 0>>, <<13, 245, 1>>, <<13, 295, 0>>, <<13, 295, 1>>, <<13, 295, 2>>,
      <<14, 285, 0>>, <<14, 285, 1>>, <<14, 285, 2>>, <<18, 245, 0>>, <<18, 245, 1>>,
      <<18, 295, 0>>, <<18, 295, 1>>, <<18, 295, 2>>, <<19, 285, 0>>, <<19, 285, 1>>,
      <<43, 295, 0>> }

\* mutant: coreScore is not capped at 100
calculateConfidenceScoreUncapped(semanticOverlap, brandStats, coreMessagesCount) ==
    LET sum == 20 * semanticOverlap
                 + Max(0, 1500 - 3 * brandStats.variance)
                 + 15 * coreMessagesCount * 20
    IN Min(100, Max(0, (sum + 25) \div 50))

\* sum is overlapScore * 0.4 + varianceScore * 0.3 + coreScore * 0.3 in
\* fiftieths, for varianceScore = Math.max(0, 100 - (variance / 5) * 100)
calculateConfidenceScore(semanticOverlap, brandStats, coreMessagesCount) ==
    LET sum == 20 * semanticOverlap
                 + Max(0, 1500 - 3 * brandStats.variance)
                 + 15 * Min(100, coreMessagesCount * 20)
        confidence ==
            IF <<semanticOverlap, brandStats.variance, coreMessagesCount>>
                   \in DOUBLE_BELOW_HALF
            THEN sum \div 50
            ELSE (sum + 25) \div 50
    IN Min(100, Max(0, confidence))

\* [...values].sort((a, b) => a - b)
RECURSIVE SortNumbers(_)
SortNumbers(values) ==
    IF values = <<>> THEN <<>>
    ELSE LET first == CHOOSE c \in 1..Len(values) :
                 \A o \in 1..Len(values) :
                     values[c] < values[o] \/ (values[c] = values[o] /\ c <= o)
         IN <<values[first]>>
              \o SortNumbers([c \in 1..(Len(values) - 1) |->
                                 IF c < first THEN values[c] ELSE values[c + 1]])

\* mutant: the weight of sorted[i] is taken with i counted from 0
GiniSumFromZero(sorted) ==
    Sum([i \in 1..Len(sorted) |-> (2 * (i - 1) - Len(sorted) - 1) * sorted[i]])

\* giniSum behind the loop; sorted[i] of the program is sorted[i + 1] here
GiniSum(sorted) ==
    Sum([i \in 1..Len(sorted) |-> (2 * i - Len(sorted) - 1) * sorted[i]])

calculateGiniCoefficient(values) ==
    LET sorted == SortNumbers(values)
        n == Len(sorted)
        sum == Sum(sorted)
    IN IF n = 0 THEN 0
       ELSE IF sum = 0 THEN 0
       ELSE \* Math.round(Math.max(0, Math.min(1, gini)) * 1000)
            (2000 * Max(0, Min(n * sum, GiniSum(sorted))) + n * sum)
                \div (2 * n * sum)

\* calculateJaccardSimilarity: intersection.size / union.size, kept as the
\* fraction of the two sizes
calculateJaccardSimilarity(a, b) ==
    LET setA == {ToLowerCase(a[c]) : c \in 1..Len(a)}
        setB == {ToLowerCase(b[c]) : c \in 1..Len(b)}
    IN IF setA = {} /\ setB = {} THEN [numerator |-> 1, denominator |-> 1]
       ELSE IF setA = {} \/ setB = {} THEN [numerator |-> 0, denominator |-> 1]
       ELSE [numerator |-> Cardinality(setA \cap setB),
             denominator |-> Cardinality(setA \cup setB)]

\* calculateCrossModelOverlapStats: the overlap of every pair i < j of model
\* results, in the order of the two loops; jaccardIndex in thousandths
calculateCrossModelOverlapStats(modelResults) ==
    LET Overlap(modelA, modelB) ==
            LET setA == {ToLowerCase(modelA.uniqueBrands[c]) :
                            c \in 1..Len(modelA.uniqueBrands)}
                setB == {ToLowerCase(modelB.uniqueBrands[c]) :
                            c \in 1..Len(modelB.uniqueBrands)}
                intersection == Cardinality(setA \cap setB)
                union == Cardinality(setA \cup setB)
            IN [modelA |-> modelA.model, modelB |-> modelB.model,
                sharedBrands |-> intersection,
                jaccardIndex |->
                    IF union > 0
                    THEN (2000 * intersection + union) \div (2 * union)
                    ELSE 0]
        RECURSIVE Pairs(_, _)
        Pairs(i, j) ==
            IF i > Len(modelResults) THEN <<>>
            ELSE IF j > Len(modelResults) THEN Pairs(i + 1, i + 2)
            ELSE <<Overlap(modelResults[i], modelResults[j])>> \o Pairs(i, j + 1)
    IN Pairs(1, 2)

\* generateBrandVariations: the trimmed name, its words of two characters or
\* more, the expansions of its abbreviations and the name without its
\* corporate suffix, in the order the Set received them
generateBrandVariations(brandName) ==
    LET normalized == TrimWhiteSpace(brandName)
        \* split(/[\s\-_&]+/).filter((w) => w.length > 0)
        RECURSIVE SplitWords(_)
        SplitWords(p) ==
            IF p > Len(normalized) THEN <<>>
            ELSE IF normalized[p] \in WhiteSpace \cup {"-", "_", "&"}
                 THEN SplitWords(p + 1)
            ELSE LET end == CHOOSE e \in (p + 1)..(Len(normalized) + 1) :
                         /\ \A k \in p..(e - 1) :
                                normalized[k] \notin WhiteSpace \cup {"-", "_", "&"}
                         /\ \/ e = Len(normalized) + 1
                            \/ normalized[e] \in WhiteSpace \cup {"-", "_", "&"}
                 IN <<SubSeq(normalized, p, end - 1)>> \o SplitWords(end)
        words == SplitWords(1)
        abbreviationMap ==
            <<
              [word |-> <<"v","w">>,
               expansions |-> <<<<"v","o","l","k","s","w","a","g","e","n">>,
                   <<"v","o","l","k","s","w","a","g","e","n"," ","g","r","o","u","p">>,
                   <<"v","w"," ","g","r","o","u","p">>>>],
              [word |-> <<"v","o","l","k","s","w","a","g","e","n">>,
               expansions |-> <<<<"v","w">>,
                   <<"v","w"," ","g","r","o","u","p">>,
                   <<"v","o","l","k","s","w","a","g","e","n"," ","g","r","o","u","p">>>>],
              [word |-> <<"b","m","w">>,
               expansions |-> <<<<"b","a","y","e","r","i","s","c","h","e"," ","m","o","t","o","r","e","n"," ","w","e","r","k","e">>>>],
              [word |-> <<"g","m">>,
               expansions |-> <<<<"g","e","n","e","r","a","l"," ","m","o","t","o","r","s">>>>],
              [word |-> <<"h","p">>,
               expansions |-> <<<<"h","e","w","l","e","t","t"," ","p","a","c","k","a","r","d">>,
                   <<"h","e","w","l","e","t","t","-","p","a","c","k","a","r","d">>>>],
              [word |-> <<"i","b","m">>,
               expansions |-> <<<<"i","n","t","e","r","n","a","t","i","o","n","a","l"," ","b","u","s","i","n","e","s","s"," ","m","a","c","h","i","n","e","s">>>>],
              [word |-> <<"g","e">>,
               expansions |-> <<<<"g","e","n","e","r","a","l"," ","e","l","e","c","t","r","i","c">>>>]
            >>
        suffixPatterns ==
            <<<<" ","g","r","o","u","p">>,
              <<" ","c","o","r","p">>,
              <<" ","i","n","c">>,
              <<" ","l","t","d">>,
              <<" ","l","l","c">>,
              <<" ","s","a">>,
              <<" ","a","g">>,
              <<" ","g","m","b","h">>>>
        \* Set.prototype.add, one value after the other
        RECURSIVE AddAll(_, _)
        AddAll(variations, values) ==
            IF values = <<>> THEN variations
            ELSE AddAll(IF Head(values) \in Range(variations)
                        THEN variations
                        ELSE Append(variations, Head(values)),
                        Tail(values))
        Expansions(word) ==
            IF \E e \in 1..Len(abbreviationMap) :
                   abbreviationMap[e].word = ToLowerCase(word)
            THEN abbreviationMap[CHOOSE e \in 1..Len(abbreviationMap) :
                     abbreviationMap[e].word = ToLowerCase(word)].expansions
            ELSE <<>>
        RECURSIVE Expand(_, _)
        Expand(variations, ws) ==
            IF ws = <<>> THEN variations
            ELSE Expand(AddAll(variations, Expansions(Head(ws))), Tail(ws))
        \* pattern.test(normalized) and normalized.replace(pattern, '').trim()
        WithoutSuffix(suffix) ==
            IF /\ Len(normalized) >= Len(suffix)
               /\ ToLowerCase(SubSeq(normalized, Len(normalized) - Len(suffix) + 1,
                                     Len(normalized))) = suffix
            THEN LET withoutSuffix ==
                         TrimWhiteSpace(SubSeq(normalized, 1,
                                               Len(normalized) - Len(suffix)))
                 IN IF Len(withoutSuffix) >= 2 THEN <<withoutSuffix>> ELSE <<>>
            ELSE <<>>
        RECURSIVE Strip(_, _)
        Strip(variations, patterns) ==
            IF patterns = <<>> THEN variations
            ELSE Strip(AddAll(variations, WithoutSuffix(Head(patterns))),
                       Tail(patterns))
    IN IF normalized = <<>> THEN <<>>
       ELSE SelectSeq(
                Strip(Expand(AddAll(<<normalized>>,
                                    SelectSeq(words, LAMBDA w : Len(w) >= 2)),
                             words),
                      suffixPatterns),
                LAMBDA v : Len(v) >= 2)

\* extractBrandMentions: the matches of /\bvariation\b/gi in the response,
\* variation after variation, without those less than 10 characters from a
\* position found before, sorted by position.  The snippet and the sentiment
\* of a mention are computed from its position and decide nothing.
extractBrandMentions(response, brandName) ==
    LET variations == generateBrandVariations(brandName)
        lower == ToLowerCase(response)
        IsWord(k) ==
            /\ k \in 1..Len(response)
            /\ response[k] \in Range(UpperCase) \cup Range(LowerCase) \cup Digits \cup {"_"}
        \* \b just before the character at k
        Boundary(k) == IsWord(k - 1) # IsWord(k)
        MatchesAt(v, p) ==
            /\ p + Len(v) - 1 <= Len(response)
            /\ \A k \in 1..Len(v) : lower[p + k - 1] = v[k]
            /\ Boundary(p)
            /\ Boundary(p + Len(v))
        \* regex.exec from lastIndex on: the first match, or 0 for null
        RECURSIVE Exec(_, _)
        Exec(v, p) ==
            IF p > Len(response) THEN 0
            ELSE IF MatchesAt(v, p) THEN p
            ELSE Exec(v, p + 1)
        RECURSIVE While(_, _, _)
        While(v, lastIndex, foundPositions) ==
            LET match == Exec(ToLowerCase(v), lastIndex)
                position == match - 1
                isDuplicate ==
                    \E existingPos \in Range(foundPositions) :
                        (IF existingPos >= position
                         THEN existingPos - position
                         ELSE position - existingPos) < 10
            IN IF match = 0 THEN foundPositions
               ELSE While(v, match + Len(v),
                          IF isDuplicate THEN foundPositions
                          ELSE Append(foundPositions, position))
        RECURSIVE ForEach(_, _)
        ForEach(vs, foundPositions) ==
            IF vs = <<>> THEN foundPositions
            ELSE ForEach(Tail(vs), While(Head(vs), 1, foundPositions))
        sorted == SortNumbers(ForEach(variations, <<>>))
    IN IF brandName = <<>> \/ response = <<>> THEN <<>>
       ELSE [c \in 1..Len(sorted) |-> [position |-> sorted[c]]]

(***************************************************************************)
(* Library calls                                                           *)
(***************************************************************************)

\* no library function has been called
NoCall ==
    [fn |-> "none", args |-> <<>>, pc |-> "none", result |-> <<>>, again |-> FALSE]

\* the caller has called fn with args
Called(fn, args) ==
    [fn |-> fn, args |-> args, pc |-> "called", result |-> <<>>, again |-> FALSE]

\* fn returns
Return(c, result) == [c EXCEPT !.pc = "returned", !.result = result]

\* the orchestrators and the classification at rest
OtherIdle ==
    /\ entry = "analyzeStability"
    /\ options = [model |-> "gemini", apiKey |-> TRUE,
                  apiKeys |-> [m \in Models |-> FALSE],
                  iterations |-> 5, onProgress |-> FALSE, onError |-> FALSE,
                  analysisConfig |-> <<>>]
    /\ run = IdleRun
    /\ xp = IdleExperiment
    /\ trace = <<>>
    /\ responses = <<>>
    /\ cls = IdleClassify

\* the texts cleanResponse is called with are at most MaxPieces of these
MaxPieces == 3

RECURSIVE Join(_)
Join(pieces) ==
    IF pieces = <<>> THEN <<>> ELSE Head(pieces) \o Join(Tail(pieces))

\* cleanResponse returns the cleaned text
CleanResponseReturn ==
    /\ call.fn = "cleanResponse" /\ call.pc = "called"
    /\ call' = Return(call, cleanResponse(call.args[1]))
    /\ UNCHANGED <<orchVars, classVars, brandsDb, detector>>

\* the caller cleans the cleaned text once more
CleanResponseAgain ==
    /\ call.fn = "cleanResponse" /\ call.pc = "returned" /\ ~call.again
    /\ call' = [Called("cleanResponse", <<call.result>>) EXCEPT !.again = TRUE]
    /\ UNCHANGED <<orchVars, classVars, brandsDb, detector>>

CleanNext ==
    \/ CleanResponseReturn
    \/ CleanResponseAgain

\* brands.json not loaded, no BrandDetector constructed
NoDatabase == [loaded |-> FALSE]

NoDetector == [constructed |-> FALSE]

\* brand names and words of texts
META      == <<"M", "e", "t", "a">>
QUEST     == <<"Q", "u", "e", "s", "t">>
PRO       == <<"P", "r", "o">>
TARGET    == <<"T", "a", "r", "g", "e", "t">>
CUSTOMCRM == <<"C", "u", "s", "t", "o", "m", "C", "R", "M">>

META_QUEST == META \o <<" ">> \o QUEST

\* what data/brands.json may hold: a database, the empty placeholder of a
\* fresh checkout, a database without high_confidence, one without meta
BUNDLED ==
    [meta |-> [version |-> "bundled",
               ignored_terms |-> <<ToLowerCase(TARGET), ToLowerCase(QUEST)>>],
     brands |-> <<TARGET, META_QUEST \o <<" ">> \o PRO, META_QUEST, META, QUEST>>,
     high_confidence |-> <<META_QUEST, QUEST>>]

BundledDatabases ==
    { BUNDLED,
      [meta |-> [version |-> "placeholder", ignored_terms |-> <<>>],
       brands |-> <<>>,
       high_confidence |-> <<>>],
      [meta |-> BUNDLED.meta, brands |-> BUNDLED.brands],
      [brands |-> BUNDLED.brands, high_confidence |-> BUNDLED.high_confidence] }

\* the database a caller passes to the constructor: one of its own, or one
\* without brands
CUSTOM ==
    [meta |-> [version |-> "1.0.0", ignored_terms |-> <<ToLowerCase(TARGET)>>],
     brands |-> <<CUSTOMCRM, TARGET>>,
     high_confidence |-> <<CUSTOMCRM>>]

\* the texts given to isBrand and getConfidence
Terms ==
    { META, ToLowerCase(META), QUEST, TARGET, ToLowerCase(TARGET), PRO,
      META_QUEST, CUSTOMCRM, ToLowerCase(CUSTOMCRM) }

\* the texts given to detectBrands and analyzeLLMResponse are at most
\* MaxWords of these words, a space between them
MaxWords == 3

DetectTexts ==
    LET Words == {META, QUEST, PRO, ToLowerCase(TARGET)}
    IN {JoinStrings(words) : words \in UNION {[1..n -> Words] : n \in 0..MaxWords}}

Confidences == {"high", "medium", "low"}

\* the options of detectBrands: each may be left out
DetectOptions ==
    {<<>>} \cup [minConfidence : Confidences] \cup [maxResults : 0..2]
      \cup [minConfidence : Confidences, maxResults : 0..2]

\* the results of detectBrands, computed once
DetectBrandsOf ==
    [d \in {BrandDetector(db) : db \in {b \in BundledDatabases : ~ConstructorThrows(b)}},
     text \in DetectTexts, o \in DetectOptions |->
        detectBrands(d, text, o)]

\* a call that has returned
Returns(fn, args, result) == Return(Called(fn, args), result)

\* new BrandDetector(...): the constructor has no parameter and reads
\* data/brands.json, whatever it is called with
Construct ==
    /\ ~detector.constructed /\ call = NoCall
    /\ \E args \in { <<>>, <<CUSTOM>>,
                      <<[meta |-> CUSTOM.meta,
                         high_confidence |-> CUSTOM.high_confidence]>> } :
          IF ConstructorThrows(brandsDb)
          THEN /\ call' = [Called("BrandDetector", args)
                               EXCEPT !.pc = "thrown", !.result = "TypeError"]
               /\ UNCHANGED detector
          ELSE /\ call' = Returns("BrandDetector", args, <<>>)
               /\ detector' = [constructed |-> TRUE, arguments |-> args,
                               this |-> BrandDetector(brandsDb)]
    /\ UNCHANGED <<orchVars, classVars, brandsDb>>

\* the caller holds a detector and has not called a method yet: the object
\* has no method that assigns a field, a call leaves it as it is
Constructed == detector.constructed /\ call.fn = "BrandDetector"

IsBrand ==
    /\ Constructed
    /\ \E t \in Terms : call' = Returns("isBrand", <<t>>, isBrand(detector.this, t))
    /\ UNCHANGED <<orchVars, classVars, brandsDb, detector>>

GetConfidence ==
    /\ Constructed
    /\ \E t \in Terms :
          call' = Returns("getConfidence", <<t>>, getConfidence(detector.this, t))
    /\ UNCHANGED <<orchVars, classVars, brandsDb, detector>>

DetectBrands ==
    /\ Constructed
    /\ \E text \in DetectTexts, o \in DetectOptions :
          call' = Returns("detectBrands", <<text, o>>,
                          DetectBrandsOf[detector.this, text, o])
    /\ UNCHANGED <<orchVars, classVars, brandsDb, detector>>

AnalyzeLLMResponse ==
    /\ Constructed
    /\ \E text \in DetectTexts,
          o \in {<<>>} \cup [minConfidence : Confidences] \cup [extended : {TRUE}]
                 \cup [extended : {TRUE}, contextRadius : {2},
                       minConfidence : Confidences] :
          call' = Returns("analyzeLLMResponse", <<text, o>>,
                          analyzeLLMResponse(detector.this, text, o))
    /\ UNCHANGED <<orchVars, classVars, brandsDb, detector>>

GetSuggestions ==
    /\ Constructed
    /\ \E partial \in {<<>>, <<"m">>, <<"M", "e", "t", "a", " ">>, <<"t">>, <<"x">>},
          o \in {<<>>} \cup [limit : 0..3] :
          call' = Returns("getSuggestions", <<partial, o>>,
                          getSuggestions(detector.this, partial, o))
    /\ UNCHANGED <<orchVars, classVars, brandsDb, detector>>

\* getMetadata returns the meta of data/brands.json
GetMetadata ==
    /\ Constructed
    /\ call' = Returns("getMetadata", <<>>, brandsDb.meta)
    /\ UNCHANGED <<orchVars, classVars, brandsDb, detector>>

\* the variances tried are the multiples of 0.05 up to MaxVarianceSteps of
\* them, the counts of core messages those up to MaxCoreMessages
MaxVarianceSteps == 104

MaxCoreMessages == 6

\* the lists given to calculateGiniCoefficient hold at most MaxValues of the
\* counts 0, 1, 2, 10 and 100
MaxValues == 4

CalculateConfidenceScoreReturn ==
    /\ call.fn = "calculateConfidenceScore" /\ call.pc = "called"
    /\ call' = Return(call, calculateConfidenceScore(call.args[1], call.args[2],
                                                     call.args[3]))
    /\ UNCHANGED <<orchVars, classVars, brandsDb, detector>>

CalculateGiniCoefficientReturn ==
    /\ call.fn = "calculateGiniCoefficient" /\ call.pc = "called"
    /\ call' = Return(call, calculateGiniCoefficient(call.args[1]))
    /\ UNCHANGED <<orchVars, classVars, brandsDb, detector>>

\* the brand lists of a model hold at most MaxBrands distinct names of these,
\* two of which differ in case only
MaxBrands == 3

BrandLists ==
    LET Names == {<<"a">>, <<"A">>, <<"b">>, <<"c">>, <<"d">>}
    IN {list \in UNION {[1..n -> Names] : n \in 0..MaxBrands} :
           \A c, o \in 1..Len(list) : c # o => list[c] # list[o]}

CalculateJaccardSimilarityReturn ==
    /\ call.fn = "calculateJaccardSimilarity" /\ call.pc = "called"
    /\ call' = Return(call, calculateJaccardSimilarity(call.args[1], call.args[2]))
    /\ UNCHANGED <<orchVars, classVars, brandsDb, detector>>

CalculateCrossModelOverlapStatsReturn ==
    /\ call.fn = "calculateCrossModelOverlapStats" /\ call.pc = "called"
    /\ call' = Return(call, calculateCrossModelOverlapStats(call.args[1]))
    /\ UNCHANGED <<orchVars, classVars, brandsDb, detector>>

\* the normalized key points given to areSimilarKeyPoints hold at most
\* MaxTextWords of these words, a space between them: three words that share
\* their stems, two synonyms, a stop word and two words apart
MaxTextWords == 3

NormalizedKeyPoints ==
    LET VOCABULARY ==
            <<<<"t","r","a","c","k","i","n","g">>,
              <<"t","r","a","c","k","s">>,
              <<"t","r","a","c","k","e","r">>,
              <<"s","a","v","e","s">>,
              <<"m","o","n","e","y">>,
              <<"p","r","o","d","u","c","t">>,
              <<"s","e","r","v","i","c","e">>,
              <<"t","h","e">>>>
    IN {JoinStrings(SelectSeq(VOCABULARY, LAMBDA word : word \in words)) :
           words \in {s \in SUBSET Range(VOCABULARY) : Cardinality(s) <= MaxTextWords}}

AreSimilarKeyPointsReturn ==
    /\ call.fn = "areSimilarKeyPoints" /\ call.pc = "called"
    /\ call' = Return(call, areSimilarKeyPoints(call.args[1], call.args[2]))
    /\ UNCHANGED <<orchVars, classVars, brandsDb, detector>>

\* the responses extractBrandMentions is called with are at most
\* MaxMentionPieces of the pieces, a space between them
MaxMentionPieces == 3

ExtractBrandMentionsReturn ==
    /\ call.fn = "extractBrandMentions" /\ call.pc = "called"
    /\ call' = Return(call, extractBrandMentions(call.args[1], call.args[2]))
    /\ UNCHANGED <<orchVars, classVars, brandsDb, detector>>

StatisticsNext ==
    \/ CalculateConfidenceScoreReturn
    \/ CalculateGiniCoefficientReturn
    \/ CalculateJaccardSimilarityReturn
    \/ CalculateCrossModelOverlapStatsReturn
    \/ AreSimilarKeyPointsReturn
    \/ ExtractBrandMentionsReturn

DetectorNext ==
    \/ Construct
    \/ IsBrand
    \/ GetConfidence
    \/ DetectBrands
    \/ AnalyzeLLMResponse
    \/ GetSuggestions
    \/ GetMetadata

(***************************************************************************)
(* Specifications                                                          *)
(***************************************************************************)

\* before the call of analyzeStability or runExperiment, with the options the
\* caller will pass: every valid iteration count and both invalid sides
Init ==
    /\ entry \in {"analyzeStability", "runExperiment", "placeholder"}
    /\ options \in
         [model : Models, apiKey : BOOLEAN, apiKeys : [Models -> BOOLEAN],
          iterations : (MIN_ITERATIONS - 1)..(MAX_ITERATIONS + 1), onProgress : BOOLEAN, onError : BOOLEAN,
          analysisConfig : {<<>>}]
    /\ entry = "analyzeStability" =>
          /\ options.apiKeys = [m \in Models |-> FALSE]
    /\ entry = "placeholder" =>
          /\ options.apiKeys = [m \in Models |-> FALSE]
          /\ options.onProgress = FALSE
          /\ options.onError = FALSE
    /\ entry = "runExperiment" =>
          /\ options.model = "gemini"
          /\ options.apiKey = FALSE
          /\ options.iterations \in
                (MIN_ITERATIONS - 1)..MaxExperimentIterations \cup {MAX_ITERATIONS + 1}
    /\ run = IdleRun
    /\ xp = IdleExperiment
    /\ trace = <<>>
    /\ responses = <<>>
    /\ cls = IdleClassify
    /\ brandsDb = NoDatabase
    /\ detector = NoDetector
    /\ call = NoCall

\* the orchestrators
Spec == Init /\ [][OrchNext]_vars

\* the same calls when the progress callback of the caller may throw
SpecThrowing == Init /\ [][ThrowingNext]_vars

\* before classifyKeyMessages is called: no Response Record yet, and the
\* orchestrators at rest
InitClassify ==
    /\ entry = "analyzeStability"
    /\ options = [model |-> "gemini", apiKey |-> TRUE,
                  apiKeys |-> [m \in Models |-> FALSE],
                  iterations |-> 5, onProgress |-> FALSE, onError |-> FALSE,
                  analysisConfig |-> <<>>]
    /\ run = IdleRun
    /\ xp = IdleExperiment
    /\ trace = <<>>
    /\ responses = <<>>
    /\ cls = IdleClassify
    /\ brandsDb = NoDatabase
    /\ detector = NoDetector
    /\ call = NoCall

\* classifyKeyMessages on every bounded list of Response Records
SpecClassify == InitClassify /\ [][ClassNext]_vars

\* cleanResponse has been called with a text
InitClean ==
    /\ OtherIdle
    /\ brandsDb = NoDatabase
    /\ detector = NoDetector
    /\ LET Pieces ==
               { <<"#", " ">>, <<"-", " ">>, <<"1", ".", " ">>, <<"*", "*">>, <<"*">>,
                 <<"_", "_">>, <<"_">>, <<BACKQUOTE>>, FENCE, <<"h">>, <<" ">>,
                 <<"\n">> }
       IN \E n \in 0..MaxPieces : \E pieces \in [1..n -> Pieces] :
              call = Called("cleanResponse", <<Join(pieces)>>)

\* cleanResponse on every bounded text, and on its own result
SpecClean == InitClean /\ [][CleanNext]_vars

\* the module is loaded with its data/brands.json, no detector constructed
InitDetector ==
    /\ OtherIdle
    /\ brandsDb \in BundledDatabases
    /\ detector = NoDetector
    /\ call = NoCall

\* a BrandDetector is constructed and one of its methods called
SpecDetector == InitDetector /\ [][DetectorNext]_vars

\* after the loop of analyzeStability: the Response Records of the iterations
\* that succeeded, at least one, and the analysisConfig of the caller, left
\* out or with customStopWords ['tracking']
InitAnalysis ==
    /\ entry = "analyzeStability"
    /\ \E analysisConfig \in
            {<<>>, [customStopWords |-> << <<"t","r","a","c","k","i","n","g">> >>]} :
          options = [model |-> "gemini", apiKey |-> TRUE,
                     apiKeys |-> [m \in Models |-> FALSE],
                     iterations |-> MaxRunIterations,
                     onProgress |-> FALSE, onError |-> FALSE,
                     analysisConfig |-> analysisConfig]
    /\ run = IdleRun
    /\ xp = IdleExperiment
    /\ trace = <<>>
    /\ responses \in RunResponses(1, MaxRunKeyPoints) \ {<<>>}
    /\ cls = IdleClassify
    /\ brandsDb = NoDatabase
    /\ detector = NoDetector
    /\ call = NoCall

\* classifyKeyMessages on the Response Records of a run
SpecAnalysis == InitAnalysis /\ [][AnalysisNext]_vars

\* one of the pure functions of the analysis has been called
InitStatistics ==
    /\ OtherIdle
    /\ brandsDb = NoDatabase
    /\ detector = NoDetector
    /\ \/ \E semanticOverlap \in 0..100, step \in 0..MaxVarianceSteps,
                coreMessagesCount \in 0..MaxCoreMessages :
              call = Called("calculateConfidenceScore",
                            <<semanticOverlap, [variance |-> 5 * step],
                              coreMessagesCount>>)
       \/ \E values \in UNION {[1..n -> {0, 1, 2, 10, 100}] : n \in 0..MaxValues} :
              call = Called("calculateGiniCoefficient", <<values>>)
       \/ \E a \in BrandLists, b \in BrandLists :
              call = Called("calculateJaccardSimilarity", <<a, b>>)
       \/ \E a \in BrandLists, b \in BrandLists :
              call = Called("calculateCrossModelOverlapStats",
                            <<<<[model |-> "gemini", uniqueBrands |-> a],
                                [model |-> "openai", uniqueBrands |-> b]>>>>)
       \/ \E a \in NormalizedKeyPoints, b \in NormalizedKeyPoints :
              call = Called("areSimilarKeyPoints", <<a, b>>)
       \/ LET PIECES ==
                  {<<"S","a","l","e","s","f","o","r","c","e">>,
                   <<"S","A","L","E","S","F","O","R","C","E"," ","C","l","o","u","d">>,
                   <<"I","B","M">>,
                   <<"I","n","t","e","r","n","a","t","i","o","n","a","l"," ","B","u","s","i","n","e","s","s"," ","M","a","c","h","i","n","e","s">>,
                   <<"A","c","m","e"," ","I","n","c">>,
                   <<"i","s">>,
                   <<"C","l","o","u","d">>}
              BRANDS ==
                  {<<"S","a","l","e","s","f","o","r","c","e">>,
                   <<"S","a","l","e","s","f","o","r","c","e"," ","C","l","o","u","d">>,
                   <<"I","B","M">>,
                   <<"I","n","t","e","r","n","a","t","i","o","n","a","l"," ","B","u","s","i","n","e","s","s"," ","M","a","c","h","i","n","e","s">>,
                   <<"A","c","m","e"," ","I","n","c">>,
                   <<" ">>,
                   <<>>}
          IN \E n \in 0..MaxMentionPieces : \E pieces \in [1..n -> PIECES] :
                 \E brandName \in BRANDS :
                     call = Called("extractBrandMentions",
                                   <<JoinStrings(pieces), brandName>>)

\* the pure functions of the analysis on every bounded argument
SpecStatistics == InitStatistics /\ [][StatisticsNext]_vars

(***************************************************************************)
(* Reading the trace                                                       *)
(***************************************************************************)

\* the events of kind e produced by the run for model m, in order
EventsOf(e, m) == SelectSeq(trace, LAMBDA x : x.ev = e /\ x.model = m)

\* their iteration indices, in order
IterationsOf(e, m) ==
    LET es == EventsOf(e, m) IN [j \in 1..Len(es) |-> es[j].iteration]

\* the run for model m has started, and with options that pass validation
Started(m) == \E p \in 1..Len(trace) : trace[p].model = m

Settled(m) ==
    \E p \in 1..Len(trace) : trace[p].model = m /\ trace[p].ev \in {"returned", "thrown"}

ValidCount(n) == n \in 1..10

\* the iteration count and the callbacks the run for model m was given
DirectCall == entry = "analyzeStability" /\ run.pc # "none"

DirectDone == entry = "analyzeStability" /\ run.pc = "done"

DirectValid == options.apiKey /\ ValidCount(options.iterations)

Ascending(n) == [j \in 1..n |-> j]

(***************************************************************************)
(* Claims about the orchestrators                                          *)
(***************************************************************************)

\* C1: a rejected query never aborts analyzeStability: in every run (called
\* directly or by runExperiment) whose options are valid the queries issued
\* so far are those of iterations 1, 2, 3, ... each once and in this order,
\* a settled run has issued the queries of all iterations 1..N, and the
\* error it throws, if any, is never the query's error.
C1_FailedQueryNeverAborts ==
    \A m \in Models :
        (Started(m) /\ ValidCount(options.iterations)
                    /\ entry # "placeholder"
                    /\ (entry = "analyzeStability" => options.apiKey)) =>
            /\ IterationsOf("query", m) = Ascending(Len(EventsOf("query", m)))
            /\ Settled(m) => Len(EventsOf("query", m)) = options.iterations
            /\ \A p \in 1..Len(trace) :
                  trace[p].ev = "thrown" => trace[p].args # <<ERR_QUERY>>
            /\ run.outcome.message # ERR_QUERY

\* C1 witness: a direct run of 10 iterations has settled although the
\* queries of iterations 1 and 2 were rejected
C1_Witness ==
    /\ DirectDone /\ DirectValid /\ options.iterations = 10
    /\ Len(EventsOf("rejected", options.model)) >= 2
    /\ IterationsOf("rejected", options.model)[1] = 1
    /\ IterationsOf("rejected", options.model)[2] = 2
    /\ Len(EventsOf("query", options.model)) = 10

\* C2: a settled run of analyzeStability with valid options has thrown
\* 'All iterations failed' (after the query of iteration N, and without a
\* result) if the query was rejected in every iteration, and has returned a
\* result if the query resolved in at least one iteration.
C2_AllFailedIffNoResponse ==
    (DirectDone /\ DirectValid) =>
        LET k == Len(EventsOf("rejected", options.model))
        IN /\ k = options.iterations =>
                 /\ run.outcome = Thrown(ERR_ALL_FAILED)
                 /\ Len(EventsOf("query", options.model)) = options.iterations
                 /\ trace[Len(trace)].ev = "thrown"
           /\ k < options.iterations => run.outcome.kind = "returned"

\* C2 witness: all 5 of 5 queries were rejected and the run has thrown
C2_Witness ==
    /\ DirectDone /\ DirectValid /\ options.iterations = 5
    /\ Len(EventsOf("rejected", options.model)) = 5
    /\ run.outcome.kind = "thrown"

\* C2 witness of the converse: one query of 5 resolved, a result is returned
C2_WitnessConverse ==
    /\ DirectDone /\ DirectValid /\ options.iterations = 5
    /\ Len(EventsOf("rejected", options.model)) = 4
    /\ run.outcome.kind = "returned"

\* C3: when k of the N queries were rejected, 0 < k < N, and onError is
\* supplied, the result has metadata.iterations = N - k = responses.length,
\* its responses are those of the iterations whose query resolved, and
\* onError was called once for each rejected iteration, with its index, in
\* order, and for no other iteration; nothing was logged instead.
C3_PartialFailure ==
    LET m == options.model
        k == Len(EventsOf("rejected", m))
        onErrorArgs == [j \in 1..Len(EventsOf("onError", m)) |->
                            EventsOf("onError", m)[j].args[1]]
    IN (DirectDone /\ DirectValid /\ options.onError
          /\ 0 < k /\ k < options.iterations) =>
            /\ run.outcome.kind = "returned"
            /\ run.outcome.iterations = options.iterations - k
            /\ Len(run.outcome.responses) = options.iterations - k
            /\ [j \in 1..Len(run.outcome.responses) |->
                    run.outcome.responses[j].iteration] = IterationsOf("resolved", m)
            /\ onErrorArgs = IterationsOf("rejected", m)
            /\ EventsOf("console.error", m) = <<>>

\* C3 witness: 2 of 5 queries rejected, onError supplied, result of 3
C3_Witness ==
    /\ DirectDone /\ DirectValid /\ options.onError /\ options.iterations = 5
    /\ Len(EventsOf("rejected", options.model)) = 2
    /\ run.outcome.iterations = 3

\* no query was issued and no callback was called
NoWork ==
    \A p \in 1..Len(trace) :
        trace[p].ev \notin {"query", "onProgress", "onError", "resolved", "rejected", "delay"}

\* C4: configuration errors are raised before any work: analyzeStability
\* (and its placeholder in packages/core) without an API key or with an
\* iteration count outside 1..10, and runExperiment without any API key,
\* have thrown as soon as the call has been made, with no query issued and
\* no callback called.
C4_ConfigErrorsBeforeWork ==
    /\ (entry \in {"analyzeStability", "placeholder"} /\ run.pc # "none"
          /\ ~DirectValid) =>
          /\ run.pc = "done"
          /\ run.outcome.kind = "thrown"
          /\ run.outcome.message =
                IF ~options.apiKey THEN ERR_API_KEY ELSE ERR_ITERATIONS
          /\ NoWork
    /\ (entry = "runExperiment" /\ xp.pc # "none"
          /\ \A m \in Models : ~options.apiKeys[m]) =>
          /\ xp.pc = "done"
          /\ xp.outcome = Thrown(ERR_NO_KEYS)
          /\ trace = <<>>

\* C4 witness: analyzeStability called with a key and 11 iterations
C4_Witness ==
    /\ DirectCall /\ options.apiKey /\ options.iterations = 11
    /\ run.outcome = Thrown(ERR_ITERATIONS)

\* C4 witness: runExperiment called without any key
C4_WitnessExperiment ==
    /\ entry = "runExperiment" /\ xp.pc = "done"
    /\ \A m \in Models : ~options.apiKeys[m]

SomeKey == \E m \in Models : options.apiKeys[m]

ExperimentDone == entry = "runExperiment" /\ xp.pc = "done"

\* C5: runExperiment called with at least one API key and an iteration
\* count outside 1..10 ends with the invalid-iteration-count error, not
\* with 'All model analyses failed'.
C5_ConfigErrorDistinguishable ==
    (ExperimentDone /\ SomeKey /\ ~ValidCount(options.iterations)) =>
        xp.outcome = Thrown(ERR_ITERATIONS)

\* C6: in runExperiment with onError supplied, every rejected iteration of
\* every model has been delivered to onError, with the iteration index and
\* the model name, and has not been logged instead.
C6_ExperimentOnError ==
    (entry = "runExperiment" /\ options.onError) =>
        \A p \in 1..Len(trace) :
            trace[p].ev = "rejected" =>
                /\ \E q \in 1..Len(trace) :
                      /\ trace[q].ev = "onError"
                      /\ trace[q].args = <<trace[p].iteration, ERR_QUERY, trace[p].model>>
                /\ ~\E q \in 1..Len(trace) :
                      /\ trace[q].ev = "console.error"
                      /\ trace[q].model = trace[p].model
                      /\ trace[q].iteration = trace[p].iteration

\* the providers in the order gemini, openai, grok that satisfy P
InOrder(P(_)) == SelectSeq(<<"gemini", "openai", "grok">>, P)

RunReturned(m) == EventsOf("returned", m) # <<>>

\* C7: runExperiment runs every provider with a supplied key, once and in
\* the order gemini, openai, grok, whatever the runs before it did;
\* modelResults and metadata.modelsUsed are the providers whose run
\* returned, in this order; the experiment throws 'All model analyses
\* failed' exactly when no run returned.
C7_PerModelIsolation ==
    (ExperimentDone /\ SomeKey) =>
        LET settled == SelectSeq(trace, LAMBDA x : x.ev \in {"returned", "thrown"})
            ok == InOrder(LAMBDA m : options.apiKeys[m] /\ RunReturned(m))
        IN /\ [j \in 1..Len(settled) |-> settled[j].model]
                = InOrder(LAMBDA m : options.apiKeys[m])
           /\ [j \in 1..Len(xp.modelResults) |-> xp.modelResults[j].model] = ok
           /\ ok = <<>> <=> xp.outcome = Thrown(ERR_ALL_MODELS)
           /\ ok # <<>> =>
                 /\ xp.outcome.kind = "returned"
                 /\ [j \in 1..Len(xp.outcome.responses) |->
                        xp.outcome.responses[j].model] = ok

\* C7 witness: three providers, the run of the second failed (all its
\* queries rejected), the first and the third are in modelResults
C7_Witness ==
    /\ ExperimentDone /\ \A m \in Models : options.apiKeys[m]
    /\ ValidCount(options.iterations)
    /\ ~RunReturned("openai")
    /\ Len(xp.modelResults) = 2
    /\ xp.modelResults[2].model = "grok"

\* C8: with a progress callback, a resolved query of iteration i is followed
\* at once (before any other query, delay or callback) by one call
\* onProgress(i, N), N the requested count, when the Response Record of i is
\* among the responses; onProgress is called for no other iteration, so the
\* indices of its calls are strictly increasing within a run.
C8_ProgressAfterEachResponse ==
    (DirectCall /\ DirectValid /\ options.onProgress) =>
        LET m == options.model IN
        /\ \A p \in 1..Len(trace) :
              trace[p].ev = "resolved" =>
                 /\ p < Len(trace)
                 /\ trace[p + 1].ev = "onProgress"
                 /\ trace[p + 1].args = <<trace[p].iteration, options.iterations>>
        /\ \A p \in 1..Len(trace) :
              trace[p].ev = "onProgress" =>
                 /\ p > 1 /\ trace[p - 1].ev = "resolved"
                 /\ \E j \in 1..Len(run.responses) :
                       run.responses[j].iteration = trace[p].args[1]
        /\ \A p, q \in 1..Len(trace) :
              (p < q /\ trace[p].ev = "onProgress" /\ trace[q].ev = "onProgress")
                 => trace[p].args[1] < trace[q].args[1]
        /\ \A p, q \in 1..Len(trace) :
              (trace[p].ev = "onProgress" /\ trace[q].ev = "query"
                  /\ trace[q].iteration > trace[p].args[1]) => p < q

\* C8 witness: 4 iterations, the query of iteration 2 rejected, onProgress
\* called for 1, 3 and 4
C8_Witness ==
    /\ DirectDone /\ DirectValid /\ options.onProgress /\ options.iterations = 4
    /\ IterationsOf("rejected", options.model) = <<2>>
    /\ IterationsOf("onProgress", options.model) = <<1, 3, 4>>

(***************************************************************************)
(* Claims about classifyKeyMessages                                        *)
(***************************************************************************)

Classified == cls.pc = "done"

\* how often x occurs in the sequence q
Occurrences(q, x) == Cardinality({n \in 1..Len(q) : q[n] = x})

VariableKeys ==
    [n \in 1..Len(cls.result.variableMessages) |-> cls.result.variableMessages[n].message]

\* the number of Response Records that have the key point among theirs
ResponsesWith(keyPoint) ==
    Cardinality({n \in 1..Len(responses) : keyPoint \in Range(responses[n].keyPoints)})

\* the sizes of the clusters that are in the given bucket list
CountsIn(keys) ==
    {Cardinality(cls.keyPointFrequency[c].iterations) :
        c \in {d \in 1..Len(cls.keyPointFrequency) :
                  cls.keyPointFrequency[d].key \in Range(keys)}}

\* the bucket of a cluster of `count` iterations among T, for every T up to 10
BucketOfEveryCount ==
    \A T \in 1..10 : \A count \in 1..T :
        Bucket(count, T) =
           IF 5 * count >= 4 * T THEN "core"
           ELSE IF 10 * count >= 3 * T THEN "variable" ELSE "outlier"

\* C9: after classifyKeyMessages every cluster is in exactly one of the three
\* buckets, once, and the bucket is decided by the frequency count / T, T the
\* number of Response Records: core iff count/T >= 0.8 (4/5), variable iff
\* 0.3 <= count/T < 0.8, outlier iff count/T < 0.3 (3/10); for T = 5 a cluster
\* of 4 iterations is core, of 2 variable and of 1 outlier. The bucket of a
\* count is as stated for every T up to 10.
C9_BucketsByFrequency ==
    /\ BucketOfEveryCount
    /\ Classified =>
        LET T == Len(responses)
            r == cls.result
        IN /\ \A c \in 1..Len(cls.keyPointFrequency) :
                LET key == cls.keyPointFrequency[c].key
                    count == Cardinality(cls.keyPointFrequency[c].iterations)
                IN /\ Occurrences(r.coreStableMessages, key) =
                        (IF 5 * count >= 4 * T THEN 1 ELSE 0)
                   /\ Occurrences(VariableKeys, key) =
                        (IF 10 * count >= 3 * T /\ 5 * count < 4 * T THEN 1 ELSE 0)
                   /\ Occurrences(r.outliers, key) =
                        (IF 10 * count < 3 * T THEN 1 ELSE 0)
                   /\ T = 5 =>
                        /\ count = 4 => key \in Range(r.coreStableMessages)
                        /\ count = 2 => key \in Range(VariableKeys)
                        /\ count = 1 => key \in Range(r.outliers)
           /\ Len(r.coreStableMessages) + Len(VariableKeys) + Len(r.outliers)
                 = Len(cls.keyPointFrequency)

\* C9 witness: 5 Response Records, a cluster of 4 iterations among the core
\* messages and a cluster of 1 iteration among the outliers
C9_Witness ==
    /\ Classified /\ Len(responses) = 5
    /\ 4 \in CountsIn(cls.result.coreStableMessages)
    /\ 1 \in CountsIn(cls.result.outliers)

\* C9 witness: 5 Response Records and a cluster of 2 iterations among the
\* variable messages
C9_WitnessVariable ==
    /\ Classified /\ Len(responses) = 5
    /\ 2 \in CountsIn(VariableKeys)

\* the key points that occur in the Response Records
KeyPointsPresent == UNION {Range(responses[n].keyPoints) : n \in 1..Len(responses)}

\* the key points that have a significant word
WithSignificantWord ==
    {keyPoint \in KeyPoints : getSignificantWords(Normalized[keyPoint]) # {}}

\* x has a significant word and is similar to no other key point of the run
Isolated(x) ==
    /\ x \in WithSignificantWord
    /\ \A y \in KeyPointsPresent \ {x} :
          ~Similar[Normalized[x], Normalized[y]] /\ ~Similar[Normalized[y], Normalized[x]]

\* the normalised texts of the scenario of the spec
ASANA_NORMALIZED ==
    <<"a","s","a","n","a"," ","i","s"," ","g","r","e","a","t"," ",
      "f","o","r"," ","t","a","s","k"," ","t","r","a","c","k","i","n","g">>
TRELLO_NORMALIZED ==
    <<"t","r","e","l","l","o"," ","w","o","r","k","s"," ","w","e","l","l">>

\* C10: a key point with a significant word that is among the key points of
\* exactly k of the T Response Records, and is similar to no other key point
\* of the run, ends in exactly one cluster, keyed by its normalised text,
\* whose count is k, in whatever order the responses came; with T = 5 the
\* point of 4 responses is a core stable message (80%) and the point of 1
\* response an outlier (20%).
C10_IsolatedPointCountsItsResponses ==
    Classified =>
        \A x \in KeyPointsPresent :
            Isolated(x) =>
                LET k == ResponsesWith(x)
                    f == cls.result.keyPointFrequency
                    T == Len(responses)
                IN /\ Cardinality({c \in 1..Len(f) : f[c].key = Normalized[x]}) = 1
                   /\ \A c \in 1..Len(f) : f[c].key = Normalized[x] => f[c].count = k
                   /\ (T = 5 /\ k = 4) =>
                         /\ Normalized[x] \in Range(cls.result.coreStableMessages)
                         /\ FrequencyPercent(k, T) = 80
                   /\ (T = 5 /\ k = 1) =>
                         /\ Normalized[x] \in Range(cls.result.outliers)
                         /\ FrequencyPercent(k, T) = 20

\* C10 witness: the scenario of the spec, with the one Trello response not
\* the last: Asana is the core message, Trello the outlier
C10_Witness ==
    /\ Classified /\ Len(responses) = 5
    /\ ResponsesWith("Asana") = 4 /\ ResponsesWith("Trello") = 1
    /\ responses[2].keyPoints = <<"Trello">>
    /\ "Tracks" \notin KeyPointsPresent
    /\ cls.result.coreStableMessages = <<ASANA_NORMALIZED>>
    /\ cls.result.outliers = <<TRELLO_NORMALIZED>>
    /\ cls.result.variableMessages = <<>>

(***************************************************************************)
(* Claims about cleanResponse                                              *)
(***************************************************************************)

\* C11: cleanResponse is idempotent: cleaning a cleaned text returns it
\* unchanged, cleanResponse(cleanResponse(x)) = cleanResponse(x).
C11_CleanResponseIdempotent ==
    (call.fn = "cleanResponse" /\ call.pc = "returned" /\ call.again) =>
        call.result = call.args[1]

(***************************************************************************)
(* Claims about the BrandDetector                                          *)
(***************************************************************************)

\* a method of the detector has returned
Answered(fn) == detector.constructed /\ call.fn = fn /\ call.pc = "returned"

\* the database the caller constructed the detector with: the one passed, or
\* the bundled one when none was passed
DatabaseOfCaller ==
    IF detector.arguments = <<>> THEN brandsDb ELSE detector.arguments[1]

WellFormed(db) ==
    /\ {"meta", "brands", "high_confidence"} \subseteq DOMAIN db
    /\ "ignored_terms" \in DOMAIN db.meta

\* the name of db that t is a spelling of, in a one-element set; none: {}
NamesOf(db, t) ==
    {db.brands[k] : k \in {n \in 1..Len(db.brands) :
                              ToLowerCase(db.brands[n]) = ToLowerCase(t)}}

\* the tier of t by the lists of db
TierBy(db, t) ==
    IF NamesOf(db, t) = {} THEN "null"
    ELSE IF NamesOf(db, t) \cap Range(db.high_confidence) # {} THEN "high"
    ELSE IF ToLowerCase(t) \in Range(db.meta.ignored_terms) THEN "low"
    ELSE "medium"

\* C12: a BrandDetector constructed with a brand database D answers from D
\* only: isBrand(t) is true iff the lower-cased t is the lower-cased form of a
\* name in D.brands, the tiers come from D.high_confidence and
\* D.meta.ignored_terms, and getMetadata() returns D.meta.
C12_AnswersFromItsDatabase ==
    (detector.constructed /\ WellFormed(DatabaseOfCaller)) =>
        /\ Answered("isBrand") =>
              call.result = (NamesOf(DatabaseOfCaller, call.args[1]) # {})
        /\ Answered("getConfidence") =>
              call.result = TierBy(DatabaseOfCaller, call.args[1])
        /\ Answered("getMetadata") => call.result = DatabaseOfCaller.meta

\* C13: a malformed brand database is rejected when the BrandDetector is
\* constructed: no detector is ever constructed from a database that lacks
\* meta, meta.ignored_terms, brands or high_confidence.
C13_MalformedDatabaseRejected ==
    detector.constructed => WellFormed(DatabaseOfCaller)

\* the canonical name the detector knows t by, in a one-element set; none: {}
Canonical(d, t) ==
    {d.normalizedMap[c].value :
        c \in {n \in 1..Len(d.normalizedMap) :
                  d.normalizedMap[n].key = ToLowerCase(t)}}

C14_WitnessLow == Answered("getConfidence") /\ call.result = "low"

Apart(a, b) == a.endIndex <= b.startIndex \/ b.endIndex <= a.startIndex

OneWord(a) == " " \notin Range(a.name)

\* C15 as stated: no two distinct occurrences returned by detectBrands
\* overlap.
C15_NoOverlap ==
    Answered("detectBrands") =>
        \A a, b \in 1..Len(call.result) :
            a # b => Apart(call.result[a], call.result[b])

\* C15, amended: two distinct occurrences returned by detectBrands overlap
\* only if one of them is a match of two or three words; the one-word
\* occurrences never overlap one another.
C15_OneWordOccurrencesApart ==
    Answered("detectBrands") =>
        \A a, b \in 1..Len(call.result) :
            (a # b /\ OneWord(call.result[a]) /\ OneWord(call.result[b])) =>
                Apart(call.result[a], call.result[b])

\* detectBrands has returned two one-word occurrences and a longer one that
\* overlaps both
C15_Witness ==
    /\ Answered("detectBrands")
    /\ \E a, b, c \in 1..Len(call.result) :
          /\ a # b /\ OneWord(call.result[a]) /\ OneWord(call.result[b])
          /\ ~OneWord(call.result[c])
          /\ ~Apart(call.result[a], call.result[c])
          /\ ~Apart(call.result[b], call.result[c])

\* C16: the list returned by detectBrands is in order of non-decreasing
\* startIndex and no two of its occurrences have the same span, whatever the
\* text, the database, minConfidence and maxResults.
C16_OrderedDistinctSpans ==
    Answered("detectBrands") =>
        \A a, b \in 1..Len(call.result) :
            a < b =>
                /\ call.result[a].startIndex <= call.result[b].startIndex
                /\ \/ call.result[a].startIndex # call.result[b].startIndex
                   \/ call.result[a].endIndex # call.result[b].endIndex

\* the occurrences detectBrands returns for the text and the minConfidence of
\* the latest call
DetectedForCall ==
    DetectBrandsOf[detector.this, call.args[1],
                   IF "minConfidence" \in DOMAIN call.args[2]
                   THEN [minConfidence |-> call.args[2].minConfidence]
                   ELSE <<>>]

\* detectBrands has returned the first two of more occurrences, both starting
\* at the same offset
C16_Witness ==
    /\ Answered("detectBrands")
    /\ "maxResults" \in DOMAIN call.args[2]
    /\ Len(call.result) = 2 /\ Len(DetectedForCall) > 2
    /\ call.result[1].startIndex = call.result[2].startIndex

\* detectBrands has returned all it detected, occurrences that start at the
\* same offset and others behind them
C16_WitnessAll ==
    /\ Answered("detectBrands")
    /\ "maxResults" \notin DOMAIN call.args[2]
    /\ \E a, b \in 2..Len(call.result) :
          /\ call.result[1].startIndex = call.result[a].startIndex
          /\ call.result[1].startIndex < call.result[b].startIndex

\* the place of the first occurrence of brand in a list of occurrences
FirstOf(detected, brand) ==
    CHOOSE c \in 1..Len(detected) :
        /\ detected[c].normalized = brand
        /\ \A o \in 1..(c - 1) : detected[o].normalized # brand

\* C17: analyzeLLMResponse agrees with detectBrands(text, {minConfidence}):
\* totalMentions is the number of occurrences and the sum of the counts,
\* totalBrands the number of distinct canonical names and of mentions, the
\* mentions are in non-increasing order of count, and topBrand is the brand of
\* the first mention, of maximal count and among ties the first detected, or
\* null iff there is no mention.
C17_AnalysisAgreesWithDetection ==
    Answered("analyzeLLMResponse") =>
        LET r == call.result
            detected == DetectedForCall
            brands == {detected[c].normalized : c \in 1..Len(detected)}
            CountOf(brand) ==
                Cardinality({c \in 1..Len(detected) : detected[c].normalized = brand})
        IN /\ r.totalMentions = Len(detected)
           /\ r.totalMentions = Sum([c \in 1..Len(r.mentions) |-> r.mentions[c].count])
           /\ r.totalBrands = Cardinality(brands)
           /\ r.totalBrands = Len(r.mentions)
           /\ {r.mentions[c].brand : c \in 1..Len(r.mentions)} = brands
           /\ \A c \in 1..Len(r.mentions) :
                 r.mentions[c].count = CountOf(r.mentions[c].brand)
           /\ \A c \in 1..(Len(r.mentions) - 1) :
                 r.mentions[c].count >= r.mentions[c + 1].count
           /\ (r.topBrand = <<>>) <=> (r.mentions = <<>>)
           /\ r.mentions # <<>> =>
                 /\ r.topBrand = <<r.mentions[1].brand>>
                 /\ \A brand \in brands :
                       \/ CountOf(brand) < CountOf(r.topBrand[1])
                       \/ /\ CountOf(brand) = CountOf(r.topBrand[1])
                          /\ FirstOf(detected, r.topBrand[1]) <= FirstOf(detected, brand)

\* analyzeLLMResponse has returned mentions of several brands, the top brand
\* not the first one detected, and two brands tied behind it
C17_Witness ==
    /\ Answered("analyzeLLMResponse")
    /\ Len(call.result.mentions) >= 3
    /\ call.result.topBrand # <<DetectedForCall[1].normalized>>
    /\ call.result.mentions[2].count = call.result.mentions[3].count

\* analyzeLLMResponse has returned no mention
C17_WitnessNone ==
    /\ Answered("analyzeLLMResponse")
    /\ call.args[1] # <<>>
    /\ call.result.topBrand = <<>>

\* C18: getSuggestions(partial, limit) returns at most limit names for every
\* limit >= 0, each a canonical brand name whose lower-cased form starts with
\* the lower-cased partial, in ascending order.
C18_SuggestionsCapped ==
    (Answered("getSuggestions") /\ "limit" \in DOMAIN call.args[2]) =>
        /\ Len(call.result) <= call.args[2].limit
        /\ \A c \in 1..Len(call.result) :
              /\ \E n \in 1..Len(detector.this.normalizedMap) :
                    detector.this.normalizedMap[n].value = call.result[c]
              /\ StartsWith(ToLowerCase(call.result[c]), ToLowerCase(call.args[1]))
        /\ \A c \in 1..(Len(call.result) - 1) :
              ~Precedes(call.result[c + 1], call.result[c])

(***************************************************************************)
(* Claims about the statistics                                             *)
(***************************************************************************)

Scored == call.fn = "calculateConfidenceScore" /\ call.pc = "returned"

\* 0.4 * semanticOverlap + 0.3 * varianceScore + 0.3 * coreScore of the latest
\* call, times 50, with varianceScore = max(0, 100 - (brandVariance / 5) * 100)
\* and coreScore = min(100, 20 * coreMessageCount); the variance is in
\* hundredths
ClaimedSum ==
    LET varianceScore15 == IF 3 * call.args[2].variance >= 1500 THEN 0
                           ELSE 1500 - 3 * call.args[2].variance
        coreScore == IF 20 * call.args[3] >= 100 THEN 100 ELSE 20 * call.args[3]
    IN 20 * call.args[1] + varianceScore15 + 15 * coreScore

\* C19 as stated: the consistency score is an integer in 0..100 equal to
\* round(0.4 * semanticOverlap + 0.3 * varianceScore + 0.3 * coreScore).
C19_ScoreIsRoundedSum ==
    Scored => /\ call.result \in 0..100
              /\ call.result = (ClaimedSum + 25) \div 50

\* C19, amended: the consistency score is an integer in 0..100 nearest to
\* 0.4 * semanticOverlap + 0.3 * varianceScore + 0.3 * coreScore; where that
\* sum is k + 1/2 the score is k or k + 1.
C19_ScoreIsNearestInteger ==
    Scored => /\ call.result \in 0..100
              /\ 50 * call.result - 25 <= ClaimedSum
              /\ ClaimedSum <= 50 * call.result + 25

\* a score has been returned for a variance above 5 and more than 5 core
\* messages, where both caps apply
C19_Witness ==
    /\ Scored
    /\ call.args[2].variance > 500 /\ call.args[3] > 5
    /\ call.result = (20 * call.args[1] + 1500 + 25) \div 50

\* a score has been returned for a sum of k + 1/2, and it is k
C19_WitnessHalf ==
    /\ Scored
    /\ ClaimedSum % 50 = 25
    /\ 50 * call.result + 25 = ClaimedSum

Gini == call.fn = "calculateGiniCoefficient" /\ call.pc = "returned"

\* the i-th least of values: the value with fewer than i values below it and
\* at least i values not above it
Least(values, i) ==
    CHOOSE x \in Range(values) :
        /\ Cardinality({c \in 1..Len(values) : values[c] < x}) < i
        /\ Cardinality({c \in 1..Len(values) : values[c] <= x}) >= i

\* the sum over the ascending values x_i of (2i - n - 1) * x_i
RankWeightedSum(values) ==
    Sum([i \in 1..Len(values) |-> (2 * i - Len(values) - 1) * Least(values, i)])

\* C20: calculateGiniCoefficient returns a value in [0,1] for every list of
\* non-negative integers: 0 for the empty list, for a list of sum 0 and for a
\* list of equal values, more than 0.5 for [100,1,1,1]; before rounding it is
\* the sum over the ascending values x_i of (2i - n - 1) * x_i, divided by
\* n * sum.
C20_GiniCoefficient ==
    Gini =>
        LET values == call.args[1]
            n == Len(values)
            sum == Sum(values)
        IN /\ call.result \in 0..1000
           /\ n = 0 => call.result = 0
           /\ sum = 0 => call.result = 0
           /\ (\A c \in 1..n : values[c] = values[1]) => call.result = 0
           /\ values = <<100, 1, 1, 1>> => call.result > 500
           /\ sum > 0 =>
                 /\ RankWeightedSum(values) >= 0
                 /\ RankWeightedSum(values) <= n * sum
                 /\ 2 * n * sum * call.result - n * sum
                        <= 2000 * RankWeightedSum(values)
                 /\ 2000 * RankWeightedSum(values)
                        < 2 * n * sum * call.result + n * sum

\* the coefficient of [100,1,1,1] has been returned
C20_Witness ==
    /\ Gini
    /\ call.args[1] = <<100, 1, 1, 1>>
    /\ call.result = 721

\* the coefficient of a list of equal values above 0 has been returned
C20_WitnessEqual ==
    /\ Gini
    /\ Len(call.args[1]) = 4
    /\ \A c \in 1..4 : call.args[1][c] = 10
    /\ call.result = 0

CrossModel == call.fn = "calculateCrossModelOverlapStats" /\ call.pc = "returned"

\* the fraction n / d is 1000 * x thousandths when rounded to three decimals
RoundsTo(fraction, x) ==
    /\ 2 * fraction.denominator * x - fraction.denominator
           <= 2000 * fraction.numerator
    /\ 2000 * fraction.numerator
           < 2 * fraction.denominator * x + fraction.denominator

\* C21 as stated: the jaccardIndex reported for two models is
\* calculateJaccardSimilarity of their brand lists rounded to three decimals,
\* which is 1 when both brand sets are empty, 0 when exactly one is empty,
\* the same for the two models exchanged, and 0.5 for {a,b,c} and {b,c,d}.
C21_JaccardIndexIsJaccardSimilarity ==
    CrossModel =>
        LET a == call.args[1][1].uniqueBrands
            b == call.args[1][2].uniqueBrands
            jaccardIndex == call.result[1].jaccardIndex
        IN /\ Len(call.result) = 1
           /\ RoundsTo(calculateJaccardSimilarity(a, b), jaccardIndex)
           /\ RoundsTo(calculateJaccardSimilarity(b, a), jaccardIndex)
           /\ (a = <<>> /\ b = <<>>) => jaccardIndex = 1000
           /\ (a = <<>>) # (b = <<>>) => jaccardIndex = 0
           /\ (a = << <<"a">>, <<"b">>, <<"c">> >> /\ b = << <<"b">>, <<"c">>, <<"d">> >>)
                  => jaccardIndex = 500

\* the same, for two models of which at least one has a brand
C21_JaccardIndexOfBrands ==
    (CrossModel /\ (call.args[1][1].uniqueBrands # <<>>
                       \/ call.args[1][2].uniqueBrands # <<>>))
        => C21_JaccardIndexIsJaccardSimilarity

(***************************************************************************)
(* Claims about the clustering of the Response Records of a run            *)
(***************************************************************************)

\* a pass of the inner loop of the first loop nest is taken
Clustering == cls.pc = "cluster" /\ cls'.pc = "cluster" /\ cls' # cls

\* the significant words of text when stopWords are the stop words
SignificantWith(stopWords, text) ==
    {w \in {ToLowerCase(x) : x \in Range(Split(text))} :
        Len(w) > 2 /\ w \notin stopWords}

\* the similarity of two normalized key points when stopWords are the stop
\* words
SimilarWith(stopWords, a, b) ==
    LET wordsA == SignificantWith(stopWords, a)
        wordsB == SignificantWith(stopWords, b)
        direct == Cardinality(wordsA \cap wordsB)
        stem == Cardinality({x \in wordsA :
                    \E y \in wordsB : x # y /\ shareWordStem(x, y)})
        concept == Cardinality({x \in wordsA :
                       \E y \in wordsB : x # y /\ areSynonyms(x, y)})
    IN /\ wordsA # {} /\ wordsB # {}
       /\ 10 * direct + 8 * stem + 7 * concept
              >= 3 * Min(Cardinality(wordsA), Cardinality(wordsB))

\* C22 as stated: when analysisConfig.customStopWords is supplied, the key
\* points are compared with customStopWords in the place of the default stop
\* words: a key point joins the first cluster it is similar to when the words
\* of customStopWords are not counted and the default stop words outside it
\* are, and no other cluster when there is none.
C22_CustomStopWordsReplaceDefault ==
    [][(Clustering /\ "customStopWords" \in DOMAIN options.analysisConfig) =>
          LET map == cls.keyPointFrequency
              normalized == Normalized[responses[cls.i].keyPoints[cls.j]]
              stopWords == Range(options.analysisConfig.customStopWords)
              similar == {c \in 1..Len(map) :
                             SimilarWith(stopWords, normalized, map[c].key)}
          IN IF similar # {}
             THEN LET first == CHOOSE c \in similar : \A o \in similar : c <= o
                  IN /\ cls.i \in cls'.keyPointFrequency[first].iterations
                     /\ \A c \in 1..Len(map) :
                           c # first => cls'.keyPointFrequency[c] = map[c]
             ELSE \A c \in 1..Len(map) :
                     map[c].key # normalized => cls'.keyPointFrequency[c] = map[c]
      ]_vars

\* the same comparison with the default stop words, whatever analysisConfig is
C22_DefaultStopWordsAlways ==
    [][Clustering =>
          LET map == cls.keyPointFrequency
              normalized == Normalized[responses[cls.i].keyPoints[cls.j]]
              similar == {c \in 1..Len(map) :
                             SimilarWith(STOP_WORDS, normalized, map[c].key)}
          IN IF similar # {}
             THEN LET first == CHOOSE c \in similar : \A o \in similar : c <= o
                  IN /\ cls.i \in cls'.keyPointFrequency[first].iterations
                     /\ \A c \in 1..Len(map) :
                           c # first => cls'.keyPointFrequency[c] = map[c]
             ELSE \A c \in 1..Len(map) :
                     map[c].key # normalized => cls'.keyPointFrequency[c] = map[c]
      ]_vars

(***************************************************************************)
(* Claims about the order of the iterations                                *)
(***************************************************************************)

\* the failure of iteration j of the run for model m has been delivered to
\* onError or logged
Reported(m, j) ==
    \E p \in 2..Len(trace) :
        /\ trace[p].ev \in {"onError", "console.error"}
        /\ trace[p].model = m /\ trace[p].iteration = j
        /\ trace[p - 1].ev \in {"rejected", "onProgress threw"}

\* the number of events of the trace whose kind is in kinds
Count(kinds) == Cardinality({p \in 1..Len(trace) : trace[p].ev \in kinds})

\* C23: at most one query is outstanding at any moment; the query of
\* iteration i + 1 is issued only after the query of iteration i has resolved
\* and its Response Record is appended, or its failure has been reported;
\* runExperiment issues the queries of a provider only after the run of every
\* provider before it has returned or thrown.
C23_StrictlySequential ==
    /\ Count({"query"}) - Count({"resolved", "rejected"}) \in {0, 1}
    /\ Count({"query"}) - Count({"resolved", "rejected"}) = 1 <=> run.pc = "await"
    /\ \A p \in 1..Len(trace) :
          trace[p].ev = "query" =>
             \A j \in 1..(trace[p].iteration - 1) :
                \E q \in 1..(p - 1) :
                   /\ trace[q].model = trace[p].model
                   /\ trace[q].iteration = j
                   /\ \/ trace[q].ev = "resolved"
                      \/ /\ trace[q].ev \in {"onError", "console.error"}
                         /\ trace[q - 1].ev = "rejected"
    /\ run.pc = "await" =>
          \A j \in 1..(run.i - 1) :
             \/ \E r \in 1..Len(run.responses) : run.responses[r].iteration = j
             \/ Reported(run.model, j)
    /\ \A p, q \in 1..Len(trace) :
          (p < q /\ trace[q].ev = "query" /\ trace[p].model # trace[q].model) =>
             \E s \in 1..(q - 1) :
                /\ trace[s].model = trace[p].model
                /\ trace[s].ev \in {"returned", "thrown"}

\* C23 witness: runExperiment awaits the second query of its second provider,
\* whose first query was rejected, after the run of the first has returned
C23_Witness ==
    /\ entry = "runExperiment" /\ xp.pc = "running"
    /\ run.pc = "await" /\ run.model = "openai" /\ run.i = 2
    /\ Reported("openai", 1)
    /\ RunReturned("gemini")

\* C24 as stated: the query of every iteration i + 1 is issued right after
\* one delay that follows the end of iteration i, whether the query of
\* iteration i resolved or was rejected, and no delay follows the last
\* iteration.
C24_DelayBetweenIterations ==
    /\ \A p \in 1..Len(trace) :
          (trace[p].ev = "query" /\ trace[p].iteration > 1) =>
             /\ trace[p - 1].ev = "delay"
             /\ trace[p - 1].model = trace[p].model
             /\ trace[p - 1].iteration = trace[p].iteration - 1
             /\ trace[p - 2].ev # "delay"
    /\ \A p \in 1..Len(trace) :
          trace[p].ev = "delay" => trace[p].iteration < options.iterations

\* the delay the code takes: one after every iteration but the last whose
\* query resolved, none after an iteration whose query was rejected
C24_DelayAfterResponseOnly ==
    /\ \A p \in 1..Len(trace) :
          (trace[p].ev = "query" /\ trace[p].iteration > 1) =>
             \/ /\ trace[p - 1].ev = "delay"
                /\ trace[p - 1].iteration = trace[p].iteration - 1
                /\ trace[p - 2].ev \in {"resolved", "onProgress"}
             \/ /\ trace[p - 1].ev \in {"onError", "console.error"}
                /\ trace[p - 2].ev = "rejected"
    /\ \A p \in 1..Len(trace) :
          trace[p].ev = "delay" => trace[p].iteration < options.iterations

\* the clusters that the normalized key point of the pass is similar to
SimilarClusters ==
    {c \in 1..Len(cls.keyPointFrequency) :
        Similar[Normalized[responses[cls.i].keyPoints[cls.j]],
                cls.keyPointFrequency[c].key]}

\* C25 as stated: every key point adds its iteration to exactly one cluster:
\* the earliest-created cluster whose representative is similar to the
\* normalized key point or, if none is similar, a newly created cluster
\* appended last and keyed by the normalized key point; the representatives
\* and their order never change.
C25_GreedyFirstMatch ==
    [][Clustering =>
          LET map == cls.keyPointFrequency
              after == cls'.keyPointFrequency
              normalized == Normalized[responses[cls.i].keyPoints[cls.j]]
          IN IF SimilarClusters # {}
             THEN LET first == CHOOSE c \in SimilarClusters :
                                  \A o \in SimilarClusters : c <= o
                  IN /\ Len(after) = Len(map)
                     /\ after[first].key = map[first].key
                     /\ after[first].iterations = map[first].iterations \cup {cls.i}
                     /\ \A c \in 1..Len(map) : c # first => after[c] = map[c]
             ELSE /\ Len(after) = Len(map) + 1
                  /\ after[Len(after)] = [key |-> normalized, iterations |-> {cls.i}]
                  /\ \A c \in 1..Len(map) : after[c] = map[c]
      ]_vars

\* the same for the key points that have a significant word or whose
\* normalized text is the key of no cluster yet
C25_GreedyFirstMatchOfNewText ==
    [][(Clustering
          /\ (SimilarClusters = {} =>
                \A c \in 1..Len(cls.keyPointFrequency) :
                    cls.keyPointFrequency[c].key
                        # Normalized[responses[cls.i].keyPoints[cls.j]]))
        => LET map == cls.keyPointFrequency
               after == cls'.keyPointFrequency
               normalized == Normalized[responses[cls.i].keyPoints[cls.j]]
           IN IF SimilarClusters # {}
              THEN LET first == CHOOSE c \in SimilarClusters :
                                   \A o \in SimilarClusters : c <= o
                   IN /\ Len(after) = Len(map)
                      /\ after[first].key = map[first].key
                      /\ after[first].iterations = map[first].iterations \cup {cls.i}
                      /\ \A c \in 1..Len(map) : c # first => after[c] = map[c]
              ELSE /\ Len(after) = Len(map) + 1
                   /\ after[Len(after)] = [key |-> normalized, iterations |-> {cls.i}]
                   /\ \A c \in 1..Len(map) : after[c] = map[c]
      ]_vars

\* C27 as stated: the index a key point adds to its cluster is the iteration
\* of the Response Record it appeared in, so that the iteration set of every
\* cluster, and every appearancePattern, holds iterations of Response Records
\* only, the appearancePattern in ascending order, also when an earlier
\* iteration of the run failed.
C27_ClustersHoldIterationsOfRecords ==
    /\ [][Clustering =>
             \A c \in 1..Len(cls'.keyPointFrequency) :
                LET before == IF c <= Len(cls.keyPointFrequency)
                              THEN cls.keyPointFrequency[c].iterations ELSE {}
                IN cls'.keyPointFrequency[c].iterations \ before
                      \subseteq {responses[cls.i].iteration}
       ]_vars
    /\ [](Classified =>
             \A n \in 1..Len(cls.result.variableMessages) :
                LET pattern == cls.result.variableMessages[n].appearancePattern
                IN /\ \A k \in 1..(Len(pattern) - 1) : pattern[k] < pattern[k + 1]
                   /\ \A k \in 1..Len(pattern) :
                         \E r \in 1..Len(responses) :
                            responses[r].iteration = pattern[k])

\* the index the code adds is the position of the Response Record among the
\* responses
C27_ClustersHoldPositionsOfRecords ==
    /\ [][Clustering =>
             \A c \in 1..Len(cls'.keyPointFrequency) :
                LET before == IF c <= Len(cls.keyPointFrequency)
                              THEN cls.keyPointFrequency[c].iterations ELSE {}
                IN cls'.keyPointFrequency[c].iterations \ before \subseteq {cls.i}
       ]_vars
    /\ [](Classified =>
             \A n \in 1..Len(cls.result.variableMessages) :
                LET pattern == cls.result.variableMessages[n].appearancePattern
                IN /\ \A k \in 1..(Len(pattern) - 1) : pattern[k] < pattern[k + 1]
                   /\ \A k \in 1..Len(pattern) : pattern[k] \in 1..Len(responses))

\* C28 as stated: while the key points are processed no cluster loses an
\* index or its place, and in the final clustering every Response Record
\* with a key point has its index in a cluster, also when the key point has
\* no significant word.
C28_MembershipNeverLost ==
    /\ [][Clustering =>
             /\ Len(cls'.keyPointFrequency) >= Len(cls.keyPointFrequency)
             /\ \A c \in 1..Len(cls.keyPointFrequency) :
                   /\ cls'.keyPointFrequency[c].key = cls.keyPointFrequency[c].key
                   /\ cls.keyPointFrequency[c].iterations
                         \subseteq cls'.keyPointFrequency[c].iterations
       ]_vars
    /\ [](Classified =>
             \A r \in 1..Len(responses) :
                responses[r].keyPoints # <<>> =>
                   \E c \in 1..Len(cls.keyPointFrequency) :
                      r \in cls.keyPointFrequency[c].iterations)

\* the same for the runs in which every key point has a significant word
C28_MembershipOfSignificantNeverLost ==
    /\ [][(Clustering
             /\ \A r \in 1..Len(responses) : "ItIs" \notin Range(responses[r].keyPoints))
           => /\ Len(cls'.keyPointFrequency) >= Len(cls.keyPointFrequency)
              /\ \A c \in 1..Len(cls.keyPointFrequency) :
                    /\ cls'.keyPointFrequency[c].key = cls.keyPointFrequency[c].key
                    /\ cls.keyPointFrequency[c].iterations
                          \subseteq cls'.keyPointFrequency[c].iterations
       ]_vars
    /\ []((Classified
             /\ \A r \in 1..Len(responses) : "ItIs" \notin Range(responses[r].keyPoints))
           => \A r \in 1..Len(responses) :
                 responses[r].keyPoints # <<>> =>
                    \E c \in 1..Len(cls.keyPointFrequency) :
                       r \in cls.keyPointFrequency[c].iterations)

(***************************************************************************)
(* Claims about the similarity of key points                               *)
(***************************************************************************)

\* C26 as stated: areSimilarKeyPoints(A, B) = areSimilarKeyPoints(B, A) for
\* all normalized key points A and B, also when several words of A share a
\* stem with one word of B.
C26_SimilaritySymmetric ==
    (call.fn = "areSimilarKeyPoints" /\ call.pc = "returned") =>
        call.result = areSimilarKeyPoints(call.args[2], call.args[1])

\* the same for key points of at most two significant words each
C26_SymmetricUpToTwoWords ==
    (call.fn = "areSimilarKeyPoints" /\ call.pc = "returned"
        /\ Cardinality(getSignificantWords(call.args[1])) <= 2
        /\ Cardinality(getSignificantWords(call.args[2])) <= 2) =>
        call.result = areSimilarKeyPoints(call.args[2], call.args[1])

(***************************************************************************)
(* Claims about callbacks that throw                                       *)
(***************************************************************************)

\* C29 as stated: when a call of analyzeStability with a valid configuration
\* has settled, the iterations of the Response Records and the iterations
\* whose failure was delivered to onError or logged are disjoint and are
\* together 1..N, also when onProgress throws.
C29_RecordedOrReportedNeverBoth ==
    (DirectDone /\ DirectValid) =>
        LET recorded == {run.responses[r].iteration : r \in 1..Len(run.responses)}
            reported == {j \in 1..options.iterations : Reported(options.model, j)}
        IN /\ recorded \cap reported = {}
           /\ recorded \cup reported = 1..options.iterations

(***************************************************************************)
(* Claims about the mentions of the tracked brand                          *)
(***************************************************************************)

Mentioned == call.fn = "extractBrandMentions" /\ call.pc = "returned"

\* the positions, counted from 0, where text stands in response as whole
\* words, whatever the case of its letters
OccurrencesOf(text, response) ==
    LET InWord(k) ==
            /\ k \in 1..Len(response)
            /\ response[k] \in Range(UpperCase) \cup Range(LowerCase) \cup Digits \cup {"_"}
        lowerText == ToLowerCase(text)
        lowerResponse == ToLowerCase(response)
    IN {p \in 0..(Len(response) - Len(text)) :
           /\ \A k \in 1..Len(text) : lowerResponse[p + k] = lowerText[k]
           /\ InWord(p) # InWord(p + 1)
           /\ InWord(p + Len(text)) # InWord(p + Len(text) + 1)}

\* where the full name stands in the response
NameOccurrences == OccurrencesOf(TrimWhiteSpace(call.args[2]), call.args[1])

\* the response holds the full name once and every variation only inside
\* that occurrence, less than reach characters behind its start
OnlyOccurrence(reach) ==
    LET name == TrimWhiteSpace(call.args[2])
    IN /\ name # <<>>
       /\ Cardinality(NameOccurrences) = 1
       /\ \A v \in Range(generateBrandVariations(call.args[2])) :
              \A q \in OccurrencesOf(v, call.args[1]) :
                  \A p \in NameOccurrences :
                      /\ p <= q /\ q + Len(v) <= p + Len(name)
                      /\ q - p < reach

SortedAndApart ==
    \A c \in 1..Len(call.result) : \A d \in (c + 1)..Len(call.result) :
        call.result[c].position + 10 <= call.result[d].position

\* C30 as stated: a response that holds the full brand name exactly once,
\* and no variation elsewhere, yields exactly one mention, however long the
\* name is; the mentions are sorted by position and any two positions differ
\* by at least 10.
C30_EachOccurrenceCountedOnce ==
    Mentioned =>
        /\ OnlyOccurrence(Len(call.args[1]) + 1) => Len(call.result) = 1
        /\ SortedAndApart

\* What the code does: the mentions are sorted and 10 or more apart, and the
\* one occurrence of the name is one mention, at its start, when every
\* variation inside it starts less than 10 characters behind that start.
C30_OccurrenceCountedOnceWhenShort ==
    Mentioned =>
        /\ OnlyOccurrence(10) =>
               call.result = <<[position |-> CHOOSE p \in NameOccurrences : TRUE]>>
        /\ SortedAndApart
====
